---- MODULE Spec2Model ----
(***************************************************************************)
(* A model of the topic graph and versioning core of django-aswiki         *)
(* (aswiki/models.py, aswiki/parser.py and the management commands).       *)
(*                                                                         *)
(* The database is the state: the Topic, NascentTopic, TopicVersion and    *)
(* WriteLock tables and the two many-to-many relations of Topic.  Every    *)
(* model method is one action that runs the whole method, the signal       *)
(* handlers it triggers included (django signals are dispatched            *)
(* synchronously inside send()).  Text is a sequence of one-character      *)
(* strings, so that writing a wiki link and reading it back are two        *)
(* separate computations.                                                  *)
(***************************************************************************)
EXTENDS Integers, Sequences, FiniteSets, TLC

VARIABLES
    topics,      \* the Topic table: a sequence of rows, the index is the id
    nascents,    \* the NascentTopic table: a set of rows keyed by lc_name
    versions,    \* the TopicVersion table, in insertion order
    writelocks,  \* the WriteLock table: a set of rows [id, owner, expiry]
    now,         \* datetime.datetime.utcnow()
    last,        \* the call that produced this state, and its outcome
    sent,        \* the topic_modified and topic_notify signals of that call
    calls,       \* per user, the get_write_lock call that is under way
    TOPIC_LIST,  \* aswiki.parser.TOPIC_LIST, the process-wide TopicList
    renders,     \* per thread, the render that is under way
    fan          \* the signal handlers under way, and what they have done

vars == <<topics, nascents, versions, writelocks, now, last, sent, calls,
          TOPIC_LIST, renders, fan>>

----------------------------------------------------------------------------
(* Bounds of the model.                                                    *)

MaxTopics == 2
MaxVersions == 1
MaxRevertVersions == 2
MaxNow == 1
MaxEditNow == 2
MaxLockNow == 22
MaxRaceNow == 2

(* Program constants, in clock ticks of one minute.                        *)
WRITE_LOCK_EXPIRY == 20
RENEWAL_WINDOW == 1

None == "None"

\* reason = None, as a text
NoReason == <<None>>

Users == {"ann", "staff"}

\* an is_staff that holds of every user
is_staff_everyone(user) == user \in Users

is_staff(user) == user = "staff"

----------------------------------------------------------------------------
(* Text.                                                                   *)

Lower(ch) ==
    CASE ch = "A" -> "a"
      [] ch = "B" -> "b"
      [] ch = "C" -> "c"
      [] OTHER -> ch

\* str.lower()
lower(s) == [i \in 1..Len(s) |-> Lower(s[i])]

\* The element of a one-element set.  Only({e : x \in {v}}) is
\* LET x == v IN e, with v worked out once however often e uses x.
Only(S) == CHOOSE x \in S : TRUE

\* a valid_name that rejects "/" only
valid_name_slash_only(name) == ~ \E i \in 1..Len(name) : name[i] = "/"

\* Topic.valid_name
valid_name(name) == ~ \E i \in 1..Len(name) : name[i] \in {"/", ":"}

\* the characters WIKILINK_RE's group 1, [^\]|]+, runs over
RunEnd(raw, i) ==
    CHOOSE j \in i..(Len(raw) + 1) :
        /\ j = Len(raw) + 1 \/ raw[j] \in {"]", "|"}
        /\ \A k \in i..(j - 1) : raw[k] \notin {"]", "|"}

NoMatch == [found |-> FALSE]

\* WIKILINK_RE = \[\[([^\]|]+)(\]\]|\|) anchored at position i.  A match is
\* [first, last, target, close]: group 1 is target, group 2 is close.
MatchAt(raw, i) ==
    IF i + 1 <= Len(raw) /\ raw[i] = "[" /\ raw[i + 1] = "["
    THEN Only({
             IF j = i + 2 \/ j > Len(raw) THEN NoMatch
             ELSE IF raw[j] = "|"
                  THEN [found |-> TRUE, first |-> i, last |-> j,
                        target |-> SubSeq(raw, i + 2, j - 1), close |-> <<"|">>]
             ELSE IF j + 1 <= Len(raw) /\ raw[j + 1] = "]"
                  THEN [found |-> TRUE, first |-> i, last |-> j + 1,
                        target |-> SubSeq(raw, i + 2, j - 1),
                        close |-> <<"]", "]">>]
             ELSE NoMatch
           : j \in {RunEnd(raw, i + 2)}})
    ELSE NoMatch

\* WIKILINK_RE's successive non-overlapping matches in raw, from position i on
RECURSIVE WikiLinks(_, _)
WikiLinks(raw, i) ==
    IF i > Len(raw) THEN <<>>
    ELSE Only({IF m.found THEN <<m>> \o WikiLinks(raw, m.last + 1)
               ELSE WikiLinks(raw, i + 1)
               : m \in {MatchAt(raw, i)}})

\* the helper repl of rename_referenced_topic: the text a match is replaced by
repl(m, old_name, new_name) ==
    IF lower(m.target) = old_name
    THEN <<"[", "[">> \o new_name \o m.close
    ELSE <<"[", "[">> \o m.target \o m.close

\* WIKILINK_RE.sub(repl, raw), from position i on
RECURSIVE sub(_, _, _, _)
sub(raw, i, old_name, new_name) ==
    IF i > Len(raw) THEN <<>>
    ELSE Only({IF m.found
               THEN repl(m, old_name, new_name)
                        \o sub(raw, m.last + 1, old_name, new_name)
               ELSE <<raw[i]>> \o sub(raw, i + 1, old_name, new_name)
               : m \in {MatchAt(raw, i)}})

\* The wiki link targets the creole parser hands to wiki_links_path_func and
\* wiki_links_class_func, in document order.  The markup is read with the
\* link syntax the repository states for it in WIKILINK_RE: [[target]] or
\* [[target|alias]].
LinkTargets(raw) ==
    Only({[k \in 1..Len(ms) |-> ms[k].target] : ms \in {WikiLinks(raw, 1)}})

\* A <<subtopics arg>> macro call anchored at position i.  The macro name is
\* one token of the text.
MacroAt(raw, i) ==
    IF i + 3 <= Len(raw) /\ raw[i] = "<" /\ raw[i + 1] = "<"
       /\ raw[i + 2] = "subtopics" /\ raw[i + 3] = " "
    THEN Only({
             IF j > i + 4 /\ j + 1 <= Len(raw) /\ raw[j + 1] = ">"
             THEN [found |-> TRUE, last |-> j + 1,
                   arg |-> SubSeq(raw, i + 4, j - 1)]
             ELSE NoMatch
           : j \in {CHOOSE e \in (i + 4)..(Len(raw) + 1) :
                       /\ e = Len(raw) + 1 \/ raw[e] = ">"
                       /\ \A k \in (i + 4)..(e - 1) : raw[k] # ">"}})
    ELSE NoMatch

\* the arg_string of every subtopics macro call in raw, in document order
RECURSIVE MacroArgs(_, _)
MacroArgs(raw, i) ==
    IF i > Len(raw) THEN <<>>
    ELSE Only({IF m.found THEN <<m.arg>> \o MacroArgs(raw, m.last + 1)
               ELSE MacroArgs(raw, i + 1)
               : m \in {MacroAt(raw, i)}})

\* TopicList.path_fn applied to each link target in turn: the list of lower
\* case names in order of first occurrence (TopicList.topics)
RECURSIVE path_fn_topics(_)
path_fn_topics(targets) ==
    IF targets = <<>> THEN <<>>
    ELSE Only({IF \E k \in 1..Len(before) : before[k] = lc THEN before
               ELSE Append(before, lc)
               : before \in {path_fn_topics(SubSeq(targets, 1, Len(targets) - 1))},
                 lc \in {lower(targets[Len(targets)])}})

\* TopicList.topics_case[lc]: the spelling of the first target whose lower
\* case form is lc
topics_case(targets, lc) ==
    targets[CHOOSE k \in 1..Len(targets) :
                /\ lower(targets[k]) = lc
                /\ \A h \in 1..(k - 1) : lower(targets[h]) # lc]

\* s.startswith(prefix)
startswith(s, prefix) ==
    Len(prefix) <= Len(s) /\ SubSeq(s, 1, Len(prefix)) = prefix

Range(f) == {f[k] : k \in DOMAIN f}

----------------------------------------------------------------------------
(* The database.  db is [topics, nascents, versions]; an "instance" is the *)
(* in-memory model object: the scalar fields of a row plus its id (0 for   *)
(* an object that was never saved).                                        *)

DB == [topics |-> topics, nascents |-> nascents, versions |-> versions]

\* TopicManager.get_query_set: the ids of the topics that are not deleted
Live(db) == {i \in DOMAIN db.topics : ~ db.topics[i].deleted}

\* Topic.objects.filter(name__iexact = name)
ByNameIexact(db, name) ==
    {i \in Live(db) : lower(db.topics[i].name) = lower(name)}

\* Topic.objects.filter(name = name)
ByNameExact(db, name) == {i \in Live(db) : db.topics[i].name = name}

\* Topic.objects.filter(lc_name__in = names)
ByLcNameIn(db, names) == {i \in Live(db) : db.topics[i].lc_name \in names}

\* TopicManager.css_class_name
css_class_name(db, name) ==
    IF ByNameIexact(db, name) = {} THEN "nonexistent" ELSE None

\* output_subtopics: the topics a <<subtopics arg>> call lists and appends to
\* TOPIC_LIST.extra_references
output_subtopics(db, arg_string) ==
    LET arg == IF arg_string[Len(arg_string)] # "." THEN Append(arg_string, ".")
               ELSE arg_string
    IN  {i \in Live(db) : startswith(lower(db.topics[i].lc_name), lower(arg))}

\* parser.render(content_raw, environ = TOPIC_LIST): the formatted text (each
\* wiki link with its css class, each macro list) and what the render left
\* in TOPIC_LIST
Render(db, raw) ==
    Only({
        [formatted |->
            [links |-> [k \in 1..Len(targets) |->
                          <<targets[k], css_class_name(db, targets[k])>>],
             lists |-> [k \in 1..Len(args) |->
                          {db.topics[i].name : i \in output_subtopics(db, args[k])}]],
         targets |-> targets,
         topics |-> Range(path_fn_topics(targets)),
         extra_references |->
            UNION {output_subtopics(db, args[k]) : k \in 1..Len(args)}]
      : targets \in {LinkTargets(raw)}, args \in {MacroArgs(raw, 1)}})

\* the instance of row id
Load(db, id) ==
    LET r == db.topics[id]
    IN  [id |-> id, name |-> r.name, lc_name |-> r.lc_name,
         modified |-> r.modified, author |-> r.author,
         content_raw |-> r.content_raw,
         content_formatted |-> r.content_formatted,
         write_lock |-> r.write_lock, locked |-> r.locked,
         deleted |-> r.deleted, reason |-> r.reason]

\* models.Model.save: insert the instance as a new row, or update its row.
\* The many-to-many relations are not part of the row.
ModelSave(db, inst) ==
    IF inst.id = 0
    THEN [db EXCEPT !.topics = Append(@,
            [name |-> inst.name, lc_name |-> inst.lc_name,
             modified |-> inst.modified, author |-> inst.author,
             content_raw |-> inst.content_raw,
             content_formatted |-> inst.content_formatted,
             write_lock |-> inst.write_lock, locked |-> inst.locked,
             deleted |-> inst.deleted, reason |-> inst.reason,
             references |-> {}, nascent_topics |-> {}])]
    ELSE [db EXCEPT !.topics[inst.id] =
            [@ EXCEPT !.name = inst.name, !.lc_name = inst.lc_name,
                      !.modified = inst.modified, !.author = inst.author,
                      !.content_raw = inst.content_raw,
                      !.content_formatted = inst.content_formatted,
                      !.write_lock = inst.write_lock, !.locked = inst.locked,
                      !.deleted = inst.deleted, !.reason = inst.reason]]

\* the outcome of a method: the database and the instance it leaves, and the
\* exception it raised ("ok" when it returned)
Outcome(db, inst, err) == [db |-> db, inst |-> inst, err |-> err]

\* NascentTopic.save, reached from self.nascent_topics.create(...): the rows
\* it inserts (none for a name that is not valid)
NascentTopic_save(name, author) ==
    IF ~ valid_name(name) THEN {}
    ELSE {[name |-> name, lc_name |-> lower(name), author |-> author]}

\* an update of the relationships that keeps, of the nascent topics, only
\* the ones it has just created
UpdateRelationships_created_only(db, inst, r) ==
    Only({Only({Only({Only({
        [db EXCEPT
            !.topics[inst.id].references = references \cup r.extra_references,
            !.topics[inst.id].nascent_topics = {c.lc_name : c \in created},
            !.nascents = @ \cup created]
      : created \in
          {UNION {NascentTopic_save(topics_case(r.targets, t), inst.author) :
                    t \in does_not_exist \ nascent}}})
      : nascent \in
          {{n.lc_name : n \in {x \in db.nascents : x.lc_name \in does_not_exist}}}})
      : does_not_exist \in
          {r.topics \ {lower(db.topics[i].name) : i \in references}}})
      : references \in {ByLcNameIn(db, r.topics)}})

\* an update of the relationships that creates its nascent topics under the
\* lower-cased name
UpdateRelationships_lower_case(db, inst, r) ==
    Only({Only({Only({Only({
        [db EXCEPT
            !.topics[inst.id].references = references \cup r.extra_references,
            !.topics[inst.id].nascent_topics =
                nascent \cup {c.lc_name : c \in created},
            !.nascents = @ \cup created]
      : created \in
          {UNION {NascentTopic_save(t, inst.author) :
                    t \in does_not_exist \ nascent}}})
      : nascent \in
          {{n.lc_name : n \in {x \in db.nascents : x.lc_name \in does_not_exist}}}})
      : does_not_exist \in
          {r.topics \ {lower(db.topics[i].name) : i \in references}}})
      : references \in {ByLcNameIn(db, r.topics)}})

\* the relationship half of prerender_content (models.py 875-896)
UpdateRelationships(db, inst, r) ==
    Only({Only({Only({Only({
        [db EXCEPT
            !.topics[inst.id].references = references \cup r.extra_references,
            !.topics[inst.id].nascent_topics =
                nascent \cup {c.lc_name : c \in created},
            !.nascents = @ \cup created]
      : created \in
          {UNION {NascentTopic_save(topics_case(r.targets, t), inst.author) :
                    t \in does_not_exist \ nascent}}})
      : nascent \in
          {{n.lc_name : n \in {x \in db.nascents : x.lc_name \in does_not_exist}}}})
      : does_not_exist \in
          {r.topics \ {lower(db.topics[i].name) : i \in references}}})
      : references \in {ByLcNameIn(db, r.topics)}})

\* Topic.prerender_content
prerender_content(db, inst, update_relationships) ==
    Only({LET rendered == [inst EXCEPT !.content_formatted = r.formatted]
          IN  IF \E t \in r.topics : ~ valid_name(t)
              THEN Outcome(db, rendered, "BadName")
              ELSE IF ~ update_relationships THEN Outcome(db, rendered, "ok")
              ELSE Outcome(UpdateRelationships(db, rendered, r), rendered, "ok")
          : r \in {Render(db, inst.content_raw)}})

\* Topic.save of an instance that has a row (self.id is not None), up to and
\* including super().save
SaveExisting(db, inst0, render) ==
    LET inst == [inst0 EXCEPT !.lc_name = lower(inst0.name)]
    IN  IF ~ valid_name(inst.name) THEN Outcome(db, inst, "BadName")
        ELSE IF ~ render THEN Outcome(ModelSave(db, inst), inst, "ok")
        ELSE Only({IF p.err # "ok" THEN p
                   ELSE Outcome(ModelSave(p.db, p.inst), p.inst, "ok")
                   : p \in {prerender_content(db, inst, TRUE)}})

\* the topics of a queryset in Meta.ordering ("-modified"); rows with equal
\* modified come in the order the database picks, given here by rank
RECURSIVE Ordered(_, _, _)
Ordered(db, ids, rank) ==
    IF ids = {} THEN <<>>
    ELSE LET first == CHOOSE i \in ids : \A j \in ids :
                        \/ db.topics[i].modified > db.topics[j].modified
                        \/ /\ db.topics[i].modified = db.topics[j].modified
                           /\ rank[i] <= rank[j]
         IN  <<first>> \o Ordered(db, ids \ {first}, rank)

\* for topic in order: topic.save()  -- stops at the first exception
RECURSIVE SaveEach(_, _)
SaveEach(db, order) ==
    IF order = <<>> THEN Outcome(db, None, "ok")
    ELSE Only({IF s.err # "ok" THEN s ELSE SaveEach(s.db, Tail(order))
               : s \in {SaveExisting(db, Load(db, order[1]), TRUE)}})

\* a nascent.delete() that removes the rows in Topic.nascent_topics and leaves
\* the NascentTopic row behind
NascentDelete_keep_row(db, lc) ==
    [db EXCEPT
        !.topics = [i \in DOMAIN @ |->
                      [@[i] EXCEPT !.nascent_topics = @ \ {lc}]]]

\* nascent.delete(): the row and, by cascade, its rows in Topic.nascent_topics
NascentDelete(db, lc) ==
    [db EXCEPT
        !.nascents = {n \in @ : n.lc_name # lc},
        !.topics = [i \in DOMAIN @ |->
                      [@[i] EXCEPT !.nascent_topics = @ \ {lc}]]]

\* a catch_topic_created that deletes the nascent topic and saves none of the
\* topics that referred to it
catch_topic_created_no_rerender(db, sender, rank) ==
    LET found == {n \in db.nascents : lower(n.name) = lower(lower(sender.name))}
    IN  IF found = {} THEN Outcome(db, sender, "ok")
        ELSE LET nascent == CHOOSE n \in found : TRUE
             IN  Outcome(NascentDelete(db, nascent.lc_name), sender, "ok")

\* catch_topic_created
catch_topic_created(db, sender, rank) ==
    LET found == {n \in db.nascents : lower(n.name) = lower(lower(sender.name))}
    IN  IF found = {} THEN Outcome(db, sender, "ok")
        ELSE LET nascent == CHOOSE n \in found : TRUE
                 topic_set == {i \in Live(db) :
                                 nascent.lc_name \in db.topics[i].nascent_topics}
             IN  Only({IF s.err # "ok" THEN Outcome(s.db, sender, s.err)
                       ELSE Outcome(NascentDelete(s.db, nascent.lc_name), sender,
                                    "ok")
                       : s \in {SaveEach(db, Ordered(db, topic_set, rank))}})

\* Topic.referenced_by.all()
referenced_by(db, id) == {i \in Live(db) : id \in db.topics[i].references}

\* Topic.rename_referenced_topic
rename_referenced_topic(db, inst, old_name, new_name) ==
    SaveExisting(db,
        [inst EXCEPT !.content_raw = sub(inst.content_raw, 1, lower(old_name), new_name)],
        TRUE)

\* for topic in order: topic.rename_referenced_topic(old_name, new_name)
RECURSIVE RenameEach(_, _, _, _)
RenameEach(db, order, old_name, new_name) ==
    IF order = <<>> THEN Outcome(db, None, "ok")
    ELSE Only({IF s.err # "ok" THEN s
               ELSE RenameEach(s.db, Tail(order), old_name, new_name)
               : s \in {rename_referenced_topic(db, Load(db, order[1]),
                                                old_name, new_name)}})

\* catch_topic_renamed
catch_topic_renamed(db, sender, old_name, rank) ==
    Only({IF s.err # "ok" THEN Outcome(s.db, sender, s.err)
          ELSE catch_topic_created(s.db, sender, rank)
          : s \in {RenameEach(db, Ordered(db, referenced_by(db, sender.id), rank),
                              old_name, sender.name)}})

\* catch_topic_deleted
catch_topic_deleted(db, sender, rank) ==
    Only({Outcome(s.db, sender, s.err)
          : s \in {SaveEach(db, Ordered(db, referenced_by(db, sender.id), rank))}})

\* a creating save that renders once, before the row exists, and not again
SaveNew_single_render(db, inst0, rank) ==
    LET inst == [inst0 EXCEPT !.lc_name = lower(inst0.name)]
    IN  IF ~ valid_name(inst.name) THEN Outcome(db, inst, "BadName")
        ELSE Only({
               IF p1.err # "ok" THEN p1
               ELSE catch_topic_created(ModelSave(db, p1.inst),
                                        [p1.inst EXCEPT !.id = Len(db.topics) + 1],
                                        rank)
               : p1 \in {prerender_content(db, inst, FALSE)}})

\* Topic.save of an instance that has no row yet (self.id is None), render =
\* True: the topic is created
SaveNew(db, inst0, rank) ==
    LET inst == [inst0 EXCEPT !.lc_name = lower(inst0.name)]
    IN  IF ~ valid_name(inst.name) THEN Outcome(db, inst, "BadName")
        ELSE Only({
               IF p1.err # "ok" THEN p1
               ELSE Only({IF p2.err # "ok" THEN p2
                          ELSE catch_topic_created(ModelSave(p2.db, p2.inst),
                                                   p2.inst, rank)
                          : p2 \in {prerender_content(
                                       ModelSave(db, p1.inst),
                                       [p1.inst EXCEPT !.id = Len(db.topics) + 1],
                                       TRUE)}})
               : p1 \in {prerender_content(db, inst, FALSE)}})

\* Topic._new_version: the TopicVersion row
TopicVersion(inst) ==
    [topic |-> inst.id, author |-> inst.author, name |-> inst.name,
     content_raw |-> inst.content_raw, reason |-> inst.reason,
     created |-> inst.modified]

\* a _new_version that sets the reason and the author before it takes the
\* snapshot
new_version_after_assignment(db, inst, user, reason) ==
    Outcome([db EXCEPT !.versions =
                Append(@, TopicVersion([inst EXCEPT !.reason = reason,
                                                    !.author = user]))],
            [inst EXCEPT !.reason = reason, !.author = user], "ok")

\* a _new_version that keeps only the latest TopicVersion of a topic
new_version_latest_only(db, inst, user, reason) ==
    Outcome([db EXCEPT !.versions =
                SelectSeq(@, LAMBDA v : v.topic # inst.id)
                    \o <<TopicVersion(inst)>>],
            [inst EXCEPT !.reason = reason, !.author = user], "ok")

\* Topic._new_version
new_version(db, inst, user, reason) ==
    Outcome([db EXCEPT !.versions = Append(@, TopicVersion(inst))],
            [inst EXCEPT !.reason = reason, !.author = user], "ok")

\* an update_content that takes its version snapshot after the new content
\* is assigned
update_content_snapshot_after(db, inst, user, new_content, reason, update_modified, t) ==
    IF inst.locked /\ ~ is_staff(user) THEN Outcome(db, inst, "PermissionDenied")
    ELSE LET why == IF reason = NoReason \/ Len(reason) = 0
                    THEN <<"edited", inst.name, user>> ELSE reason
             changed == [inst EXCEPT !.content_raw = new_content,
                                     !.modified = IF update_modified THEN t ELSE @]
             v == new_version(db, changed, user, why)
         IN  SaveExisting(v.db, v.inst, TRUE)

\* Topic.update_content, up to the signals it sends
update_content(db, inst, user, new_content, reason, update_modified, t) ==
    IF inst.locked /\ ~ is_staff(user) THEN Outcome(db, inst, "PermissionDenied")
    ELSE LET why == IF reason = NoReason \/ Len(reason) = 0
                    THEN <<"edited", inst.name, user>> ELSE reason
             v == new_version(db, inst, user, why)
             changed == [v.inst EXCEPT !.content_raw = new_content,
                                       !.modified = IF update_modified THEN t ELSE @]
         IN  SaveExisting(v.db, changed, TRUE)

\* a revert that keeps the content the topic has
revert_keep_content(db, inst, user, k, reason, t) ==
    IF db.versions[k].topic # inst.id THEN Outcome(db, inst, "TypeError")
    ELSE update_content(db, inst, user, inst.content_raw,
                        IF reason = NoReason
                        THEN <<"reverted", inst.name, <<db.versions[k].created>>, user>>
                        ELSE reason,
                        TRUE, t)

\* Topic.revert; topic_version is row k of the TopicVersion table.  The
\* message of the exception for a version of another topic is formatted with
\* two %s from one argument, which raises TypeError before TopicException is
\* constructed.
revert(db, inst, user, k, reason, t) ==
    IF db.versions[k].topic # inst.id THEN Outcome(db, inst, "TypeError")
    ELSE update_content(db, inst, user, db.versions[k].content_raw,
                        IF reason = NoReason
                        THEN <<"reverted", inst.name, <<db.versions[k].created>>, user>>
                        ELSE reason,
                        TRUE, t)

\* Topic.mark_as_deleted, the signal handler included
mark_as_deleted(db, inst, user, reason, t, rank) ==
    IF inst.locked /\ ~ is_staff(user) THEN Outcome(db, inst, "PermissionDenied")
    ELSE LET why == IF reason = NoReason THEN <<"deleted", inst.name, user>>
                    ELSE reason
             v == new_version(db, inst, user, why)
         IN  Only({IF s.err # "ok" THEN s
                   ELSE catch_topic_deleted(s.db, s.inst, rank)
                   : s \in {SaveExisting(v.db,
                               [v.inst EXCEPT !.deleted = TRUE, !.modified = t],
                               TRUE)}})

\* a rename that sends topic_renamed before it saves the topic under its new
\* name
rename_fanout_first(db, inst, user, new_name, reason, t, rank) ==
    IF inst.locked /\ ~ is_staff(user) THEN Outcome(db, inst, "PermissionDenied")
    ELSE IF ByNameExact(db, new_name) # {} THEN Outcome(db, inst, "TopicExists")
    ELSE LET why == IF reason = NoReason
                    THEN <<"renamed", inst.name, new_name, user>> ELSE reason
             v == new_version(db, inst, user, why)
         IN  Only({IF s.err # "ok" THEN s
                   ELSE SaveExisting(s.db, s.inst, TRUE)
                   : s \in {catch_topic_renamed(v.db,
                               [v.inst EXCEPT !.name = new_name, !.modified = t],
                               inst.name, rank)}})

\* Topic.rename, the signal handler included
rename(db, inst, user, new_name, reason, t, rank) ==
    IF inst.locked /\ ~ is_staff(user) THEN Outcome(db, inst, "PermissionDenied")
    ELSE IF ByNameExact(db, new_name) # {} THEN Outcome(db, inst, "TopicExists")
    ELSE LET why == IF reason = NoReason
                    THEN <<"renamed", inst.name, new_name, user>> ELSE reason
             v == new_version(db, inst, user, why)
         IN  Only({IF s.err # "ok" THEN s
                   ELSE catch_topic_renamed(s.db, s.inst, inst.name, rank)
                   : s \in {SaveExisting(v.db,
                               [v.inst EXCEPT !.name = new_name, !.modified = t],
                               TRUE)}})

----------------------------------------------------------------------------
(* Inputs.                                                                 *)

Link(name) == <<"[", "[">> \o name \o <<"]", "]">>
AliasLink(name, alias) == <<"[", "[">> \o name \o <<"|">> \o alias \o <<"]", "]">>
Subtopics(arg) == <<"<", "<", "subtopics", " ">> \o arg \o <<">", ">">>

CreateNames == {<<"B">>, <<"b", ".", "a">>, <<"a", "/">>, <<"a", ":">>}

RenameNames == {<<"c">>, <<"b">>, <<"c", "|", "a">>, <<"c", "/">>}

Contents ==
    {<<>>, AliasLink(<<"b">>, <<"x">>), Link(<<"c">>) \o <<" ">> \o Link(<<"B">>),
     Link(<<"a", "/">>), Subtopics(<<"b">>)}

Reasons == {NoReason}

\* the users who create topics
Authors == {"ann"}

\* the orders in which the database may return rows that tie in the ordering
Ranks == {r \in [1..MaxTopics -> 1..MaxTopics] :
            \A i, j \in 1..MaxTopics : r[i] = r[j] => i = j}

\* Topic(name = name, author = user, content_raw = content), before save()
\* fills in modified
NewTopic(name, user, content, t) ==
    [id |-> 0, name |-> name, lc_name |-> <<>>, modified |-> t, author |-> user,
     content_raw |-> content,
     content_formatted |-> [links |-> <<>>, lists |-> <<>>],
     write_lock |-> 0, locked |-> FALSE, deleted |-> FALSE, reason |-> <<>>]

----------------------------------------------------------------------------
(* Actions.                                                                *)

Commit(db) ==
    /\ topics' = db.topics
    /\ nascents' = db.nascents
    /\ versions' = db.versions

\* the record of a call: the method, the topic it was called on, for a lock
\* method the user, force and the lock <<owner, expiry>> the topic held
\* before the call, the exception raised or value returned, the signals sent
Call(op, id, user, force, held, err, events) ==
    [op |-> op, id |-> id, user |-> user, force |-> force, held |-> held,
     err |-> err, events |-> events]

\* an update_content that notifies whether the change is trivial or not
update_content_signals_always_notify(o, trivial) ==
    IF o.err # "ok" THEN <<>>
    ELSE <<[signal |-> "topic_modified", sender |-> o.inst.id,
            args |-> <<trivial>>, content_raw |-> o.inst.content_raw,
            persisted |-> o.db.topics[o.inst.id].content_raw],
           [signal |-> "topic_notify", sender |-> o.inst.id,
            args |-> <<>>, content_raw |-> o.inst.content_raw,
            persisted |-> o.db.topics[o.inst.id].content_raw]>>

\* the threads that run Topic.prerender_content, and the ones that run the
\* creole template filter
Prerenders == {"t1", "t2"}
Filters == {"f"}
Threads == Prerenders \cup Filters

\* TopicList.__init__, with the mutex free
TopicList ==
    [holder |-> None, topics |-> <<>>, topics_case |-> {},
     extra_references |-> {}, current_topic |-> None]

\* no render is under way
NoRender == [pc |-> "idle", id |-> 0, raw |-> <<>>, pos |-> 0, out |-> None]

NoRenders == [t \in Threads |-> NoRender]

\* no handler is under way: the stack of handler frames, the signals the
\* operation has sent, how often each topic was saved by a handler, the order
\* the database returns rows of equal modified in, and the exception raised
NoFan == [stack |-> <<>>, events |-> <<>>,
          saved |-> [i \in 1..MaxTopics |-> 0],
          rank |-> [i \in 1..MaxTopics |-> i], err |-> "ok"]

\* no call is under way
NoCall == [pc |-> "idle", inst |-> None, wl |-> 0, ret |-> FALSE]

NoCalls == [u \in Users |-> NoCall]

\* a signal as its receivers get it: the sender, the keyword arguments, and
\* the raw content the sender holds and its row holds when it is sent
Signal(name, o, args) ==
    [signal |-> name, sender |-> o.inst.id, args |-> args,
     content_raw |-> o.inst.content_raw,
     persisted |-> o.db.topics[o.inst.id].content_raw]

\* the signals update_content sends after self.save() has returned; o is the
\* outcome of the method up to there
update_content_signals(o, trivial) ==
    IF o.err # "ok" THEN <<>>
    ELSE <<Signal("topic_modified", o, <<trivial>>)>>
         \o (IF ~ trivial THEN <<Signal("topic_notify", o, <<>>)>> ELSE <<>>)

Init ==
    /\ topics = <<>>
    /\ nascents = {}
    /\ versions = <<>>
    /\ writelocks = {}
    /\ now = 0
    /\ last = Call("init", 0, None, FALSE, <<>>, "ok", <<>>)
    /\ sent = <<>>
    /\ calls = NoCalls
    /\ TOPIC_LIST = TopicList
    /\ renders = NoRenders
    /\ fan = NoFan

\* the clock advances
Tick ==
    /\ now < MaxNow
    /\ now' = now + 1
    /\ last' = Call("tick", 0, None, FALSE, <<>>, "ok", <<>>)
    /\ sent' = <<>>
    /\ UNCHANGED <<topics, nascents, versions, writelocks, calls, TOPIC_LIST, renders, fan>>

\* Topic(name, author, content_raw).save()
Create ==
    \E user \in Authors, name \in CreateNames, content \in Contents, rank \in Ranks :
        /\ Len(topics) < MaxTopics
        /\ \E o \in {SaveNew(DB, NewTopic(name, user, content, now), rank)} :
               /\ Commit(o.db)
               /\ last' = Call("create", o.inst.id, None, FALSE, <<>>, o.err,
                               IF o.err = "ok" THEN <<"topic_created">> ELSE <<>>)
                           @@ [name |-> name, content_raw |-> content]
        /\ sent' = <<>>
        /\ UNCHANGED <<writelocks, now, calls, TOPIC_LIST, renders, fan>>

\* Topic.objects.get(...).update_content(user, new_content, reason,
\* update_modified, trivial)
UpdateContent ==
    \E id \in Live(DB), user \in Users, content \in Contents, reason \in Reasons,
       update_modified \in BOOLEAN, trivial \in BOOLEAN :
        /\ Len(versions) < MaxVersions
        /\ \E o \in {update_content(DB, Load(DB, id), user, content, reason,
                                      update_modified, now)} :
               /\ Commit(o.db)
               /\ last' = Call("update_content", id, user, FALSE, <<>>, o.err,
                               IF o.err # "ok" THEN <<>>
                               ELSE IF trivial THEN <<"topic_modified">>
                               ELSE <<"topic_modified", "topic_notify">>)
                           @@ [new_content |-> content, trivial |-> trivial]
               /\ sent' = update_content_signals(o, trivial)
        /\ UNCHANGED <<writelocks, now, calls, TOPIC_LIST, renders, fan>>

\* Topic.objects.get(...).rename(user, new_name, reason)
Rename ==
    \E id \in Live(DB), user \in Users, new_name \in RenameNames, reason \in Reasons,
       rank \in Ranks :
        /\ Len(versions) < MaxVersions
        /\ \E o \in {rename(DB, Load(DB, id), user, new_name, reason, now, rank)} :
               /\ Commit(o.db)
               /\ last' = Call("rename", id, user, FALSE, <<>>, o.err,
                               IF o.err = "ok" THEN <<"topic_renamed">> ELSE <<>>)
                           @@ [new_name |-> new_name]
        /\ sent' = <<>>
        /\ UNCHANGED <<writelocks, now, calls, TOPIC_LIST, renders, fan>>

\* Topic.objects.get(...).mark_as_deleted(user, reason)
MarkAsDeleted ==
    \E id \in Live(DB), user \in Users, reason \in Reasons, rank \in Ranks :
        /\ Len(versions) < MaxVersions
        /\ \E o \in {mark_as_deleted(DB, Load(DB, id), user, reason, now, rank)} :
               /\ Commit(o.db)
               /\ last' = Call("mark_as_deleted", id, user, FALSE, <<>>, o.err,
                               IF o.err = "ok" THEN <<"topic_deleted">> ELSE <<>>)
        /\ sent' = <<>>
        /\ UNCHANGED <<writelocks, now, calls, TOPIC_LIST, renders, fan>>

\* Topic.objects.get(...).revert(user, topic_version, reason)
Revert ==
    \E id \in Live(DB), user \in Users, k \in DOMAIN versions, reason \in Reasons :
        /\ Len(versions) < MaxRevertVersions
        /\ \E o \in {revert(DB, Load(DB, id), user, k, reason, now)} :
               /\ Commit(o.db)
               /\ last' = Call("revert", id, user, FALSE, <<>>, o.err,
                               IF o.err # "ok" THEN <<>>
                               ELSE <<"topic_modified", "topic_notify">>)
                           @@ [version |-> k]
               /\ sent' = update_content_signals(o, FALSE)
        /\ UNCHANGED <<writelocks, now, calls, TOPIC_LIST, renders, fan>>

\* t.save() on a stored topic, as rerender_topics does for each topic; the
\* call record says whether the call before it was a save of the same topic
Resave ==
    \E id \in Live(DB) :
        /\ \E o \in {SaveExisting(DB, Load(DB, id), TRUE)} :
               /\ Commit(o.db)
               /\ last' = Call("save", id, None, FALSE, <<>>, o.err, <<>>)
                           @@ [again |-> last.op = "save" /\ last.id = id
                                           /\ last.err = "ok"]
        /\ sent' = <<>>
        /\ UNCHANGED <<writelocks, now, calls, TOPIC_LIST, renders, fan>>

\* a topic_set that also counts the topics marked as deleted
topic_set_with_deleted(db, lc) ==
    {i \in DOMAIN db.topics : lc \in db.topics[i].nascent_topics}

\* nt.topic_set.all(): the topics, as the default manager gives them, that
\* have the NascentTopic in their nascent_topics
topic_set(db, lc) ==
    {i \in Live(db) : lc \in db.topics[i].nascent_topics}

\* for nt in todo: the body of the loop of cleanup_nascent_topics
RECURSIVE handle_noargs_loop(_, _)
handle_noargs_loop(db, todo) ==
    IF todo = {} THEN db
    ELSE Only({handle_noargs_loop(
                   IF ByNameIexact(db, nt.lc_name) # {}
                   THEN NascentDelete(db, nt.lc_name)
                   ELSE IF topic_set(db, nt.lc_name) = {}
                   THEN NascentDelete(db, nt.lc_name)
                   ELSE db,
                   todo \ {nt})
               : nt \in {CHOOSE n \in todo : TRUE}})

\* Command.handle_noargs of cleanup_nascent_topics
handle_noargs(db) == handle_noargs_loop(db, db.nascents)

\* manage.py cleanup_nascent_topics
Cleanup ==
    /\ Commit(handle_noargs(DB))
    /\ last' = Call("cleanup_nascent_topics", 0, None, FALSE, <<>>, "ok", <<>>)
    /\ sent' = <<>>
    /\ UNCHANGED <<writelocks, now, calls, TOPIC_LIST, renders, fan>>

NextSweep == Create \/ UpdateContent \/ Rename \/ MarkAsDeleted \/ Cleanup

SpecSweep == Init /\ [][NextSweep]_vars

----------------------------------------------------------------------------
(* Write locks.                                                            *)

\* the WriteLock row a topic instance points at
LockOf(locks, inst) == CHOOSE wl \in locks : wl.id = inst.write_lock

\* the id the database gives the next WriteLock row
NewLockId(locks) ==
    CHOOSE n \in 1..(Cardinality(locks) + 1) : \A wl \in locks : wl.id # n

\* the outcome of a lock method: the database, the WriteLock table and the
\* value returned
LockOutcome(db, locks, ret) == [db |-> db, locks |-> locks, ret |-> ret]

\* a get_write_lock that takes a lock whose expiry is now for expired
get_write_lock_expiry_le(db, locks, inst, user, force, t) ==
    IF inst.write_lock = 0
    THEN LET wl == [id |-> NewLockId(locks), owner |-> user,
                    expiry |-> t + WRITE_LOCK_EXPIRY]
             s == SaveExisting(db, [inst EXCEPT !.write_lock = wl.id], FALSE)
         IN  LockOutcome(s.db, locks \cup {wl}, TRUE)
    ELSE LET wl == LockOf(locks, inst)
         IN  IF wl.owner = user
             THEN IF wl.expiry - t < RENEWAL_WINDOW
                  THEN LockOutcome(db,
                          (locks \ {wl}) \cup
                              {[wl EXCEPT !.expiry = t + WRITE_LOCK_EXPIRY]},
                          TRUE)
                  ELSE LockOutcome(db, locks, TRUE)
             ELSE IF wl.expiry <= t \/ force
             THEN LockOutcome(db,
                     (locks \ {wl}) \cup
                         {[wl EXCEPT !.owner = user,
                                     !.expiry = t + WRITE_LOCK_EXPIRY]},
                     TRUE)
             ELSE LockOutcome(db, locks, FALSE)

\* a get_write_lock that does not look at force
get_write_lock_no_force(db, locks, inst, user, force, t) ==
    IF inst.write_lock = 0
    THEN LET wl == [id |-> NewLockId(locks), owner |-> user,
                    expiry |-> t + WRITE_LOCK_EXPIRY]
             s == SaveExisting(db, [inst EXCEPT !.write_lock = wl.id], FALSE)
         IN  LockOutcome(s.db, locks \cup {wl}, TRUE)
    ELSE LET wl == LockOf(locks, inst)
         IN  IF wl.owner = user
             THEN IF wl.expiry - t < RENEWAL_WINDOW
                  THEN LockOutcome(db,
                          (locks \ {wl}) \cup
                              {[wl EXCEPT !.expiry = t + WRITE_LOCK_EXPIRY]},
                          TRUE)
                  ELSE LockOutcome(db, locks, TRUE)
             ELSE IF wl.expiry < t
             THEN LockOutcome(db,
                     (locks \ {wl}) \cup
                         {[wl EXCEPT !.owner = user,
                                     !.expiry = t + WRITE_LOCK_EXPIRY]},
                     TRUE)
             ELSE LockOutcome(db, locks, FALSE)

\* a get_write_lock that hands an expired lock over with the expiry it had
get_write_lock_keep_expiry(db, locks, inst, user, force, t) ==
    IF inst.write_lock = 0
    THEN LET wl == [id |-> NewLockId(locks), owner |-> user,
                    expiry |-> t + WRITE_LOCK_EXPIRY]
             s == SaveExisting(db, [inst EXCEPT !.write_lock = wl.id], FALSE)
         IN  LockOutcome(s.db, locks \cup {wl}, TRUE)
    ELSE LET wl == LockOf(locks, inst)
         IN  IF wl.owner = user
             THEN IF wl.expiry - t < RENEWAL_WINDOW
                  THEN LockOutcome(db,
                          (locks \ {wl}) \cup
                              {[wl EXCEPT !.expiry = t + WRITE_LOCK_EXPIRY]},
                          TRUE)
                  ELSE LockOutcome(db, locks, TRUE)
             ELSE IF wl.expiry < t \/ force
             THEN LockOutcome(db,
                     (locks \ {wl}) \cup {[wl EXCEPT !.owner = user]},
                     TRUE)
             ELSE LockOutcome(db, locks, FALSE)

\* a get_write_lock that renews the owner's lock whatever time it has left
get_write_lock_owner_renews(db, locks, inst, user, force, t) ==
    IF inst.write_lock = 0
    THEN LET wl == [id |-> NewLockId(locks), owner |-> user,
                    expiry |-> t + WRITE_LOCK_EXPIRY]
             s == SaveExisting(db, [inst EXCEPT !.write_lock = wl.id], FALSE)
         IN  LockOutcome(s.db, locks \cup {wl}, TRUE)
    ELSE LET wl == LockOf(locks, inst)
         IN  IF wl.owner = user
             THEN LockOutcome(db,
                     (locks \ {wl}) \cup
                         {[wl EXCEPT !.expiry = t + WRITE_LOCK_EXPIRY]},
                     TRUE)
             ELSE IF wl.expiry < t \/ force
             THEN LockOutcome(db,
                     (locks \ {wl}) \cup
                         {[wl EXCEPT !.owner = user,
                                     !.expiry = t + WRITE_LOCK_EXPIRY]},
                     TRUE)
             ELSE LockOutcome(db, locks, FALSE)

\* a get_write_lock that renews the owner's lock only once it has expired
get_write_lock_renew_expired(db, locks, inst, user, force, t) ==
    IF inst.write_lock = 0
    THEN LET wl == [id |-> NewLockId(locks), owner |-> user,
                    expiry |-> t + WRITE_LOCK_EXPIRY]
             s == SaveExisting(db, [inst EXCEPT !.write_lock = wl.id], FALSE)
         IN  LockOutcome(s.db, locks \cup {wl}, TRUE)
    ELSE LET wl == LockOf(locks, inst)
         IN  IF wl.owner = user
             THEN IF wl.expiry - t < 0
                  THEN LockOutcome(db,
                          (locks \ {wl}) \cup
                              {[wl EXCEPT !.expiry = t + WRITE_LOCK_EXPIRY]},
                          TRUE)
                  ELSE LockOutcome(db, locks, TRUE)
             ELSE IF wl.expiry < t \/ force
             THEN LockOutcome(db,
                     (locks \ {wl}) \cup
                         {[wl EXCEPT !.owner = user,
                                     !.expiry = t + WRITE_LOCK_EXPIRY]},
                     TRUE)
             ELSE LockOutcome(db, locks, FALSE)

\* Topic.get_write_lock
get_write_lock(db, locks, inst, user, force, t) ==
    IF inst.write_lock = 0
    THEN LET wl == [id |-> NewLockId(locks), owner |-> user,
                    expiry |-> t + WRITE_LOCK_EXPIRY]
             s == SaveExisting(db, [inst EXCEPT !.write_lock = wl.id], FALSE)
         IN  LockOutcome(s.db, locks \cup {wl}, TRUE)
    ELSE LET wl == LockOf(locks, inst)
         IN  IF wl.owner = user
             THEN IF wl.expiry - t < RENEWAL_WINDOW
                  THEN LockOutcome(db,
                          (locks \ {wl}) \cup
                              {[wl EXCEPT !.expiry = t + WRITE_LOCK_EXPIRY]},
                          TRUE)
                  ELSE LockOutcome(db, locks, TRUE)
             ELSE IF wl.expiry < t \/ force
             THEN LockOutcome(db,
                     (locks \ {wl}) \cup
                         {[wl EXCEPT !.owner = user,
                                     !.expiry = t + WRITE_LOCK_EXPIRY]},
                     TRUE)
             ELSE LockOutcome(db, locks, FALSE)

\* a release_write_lock that unlocks the topic and leaves the WriteLock row
release_write_lock_keep_row(db, locks, inst, user, force, t) ==
    IF inst.write_lock = 0 THEN LockOutcome(db, locks, TRUE)
    ELSE LET wl == LockOf(locks, inst)
         IN  IF wl.owner = user
             THEN LockOutcome(
                      SaveExisting(db, [inst EXCEPT !.write_lock = 0], TRUE).db,
                      locks, TRUE)
             ELSE IF force \/ wl.expiry < t
             THEN LockOutcome(
                      SaveExisting(db, [inst EXCEPT !.write_lock = 0], TRUE).db,
                      locks, TRUE)
             ELSE LockOutcome(db, locks, FALSE)

\* a release_write_lock that stamps the topic as modified when it unlocks it
release_write_lock_touch(db, locks, inst, user, force, t) ==
    IF inst.write_lock = 0 THEN LockOutcome(db, locks, TRUE)
    ELSE LET wl == LockOf(locks, inst)
         IN  IF wl.owner = user
             THEN LockOutcome(
                      SaveExisting(db, [inst EXCEPT !.write_lock = 0,
                                                    !.modified = t + 1], TRUE).db,
                      locks \ {wl}, TRUE)
             ELSE IF force \/ wl.expiry < t
             THEN LockOutcome(
                      SaveExisting(db, [inst EXCEPT !.write_lock = 0,
                                                    !.modified = t + 1], TRUE).db,
                      locks \ {wl}, TRUE)
             ELSE LockOutcome(db, locks, FALSE)

\* Topic.release_write_lock
release_write_lock(db, locks, inst, user, force, t) ==
    IF inst.write_lock = 0 THEN LockOutcome(db, locks, TRUE)
    ELSE LET wl == LockOf(locks, inst)
         IN  IF wl.owner = user
             THEN LockOutcome(
                      SaveExisting(db, [inst EXCEPT !.write_lock = 0], TRUE).db,
                      locks \ {wl}, TRUE)
             ELSE IF force \/ wl.expiry < t
             THEN LockOutcome(
                      SaveExisting(db, [inst EXCEPT !.write_lock = 0], TRUE).db,
                      locks \ {wl}, TRUE)
             ELSE LockOutcome(db, locks, FALSE)

\* a write_locked that takes a lock whose expiry is now for expired
write_locked_expiry_le(locks, inst, t) ==
    ~ (inst.write_lock = 0 \/ LockOf(locks, inst).expiry <= t)

\* Topic.write_locked
write_locked(locks, inst, t) ==
    ~ (inst.write_lock = 0 \/ LockOf(locks, inst).expiry < t)

Ret(b) == IF b THEN "True" ELSE "False"

Held(locks, inst) ==
    IF inst.write_lock = 0 THEN <<>>
    ELSE <<LockOf(locks, inst).owner, LockOf(locks, inst).expiry>>

\* Topic.objects.get(...).get_write_lock(user, force)
GetWriteLock ==
    \E id \in Live(DB), user \in Users, force \in BOOLEAN :
        /\ \E o \in {get_write_lock(DB, writelocks, Load(DB, id), user, force, now)} :
               /\ Commit(o.db)
               /\ writelocks' = o.locks
               /\ last' = Call("get_write_lock", id, user, force, Held(writelocks, Load(DB, id)),
                               Ret(o.ret), <<>>)
        /\ sent' = <<>>
        /\ UNCHANGED <<now, calls, TOPIC_LIST, renders, fan>>

\* Topic.objects.get(...).release_write_lock(user, force)
ReleaseWriteLock ==
    \E id \in Live(DB), user \in Users, force \in BOOLEAN :
        /\ \E o \in {release_write_lock(DB, writelocks, Load(DB, id), user, force,
                                          now)} :
               /\ Commit(o.db)
               /\ writelocks' = o.locks
               /\ last' = Call("release_write_lock", id, user, force, Held(writelocks, Load(DB, id)),
                               Ret(o.ret), <<>>)
        /\ sent' = <<>>
        /\ UNCHANGED <<now, calls, TOPIC_LIST, renders, fan>>

\* the clock advances by a minute
LockTick ==
    /\ now < MaxLockNow
    /\ now' = now + 1
    /\ last' = Call("tick", 0, None, FALSE, <<>>, "ok", <<>>)
    /\ sent' = <<>>
    /\ UNCHANGED <<topics, nascents, versions, writelocks, calls, TOPIC_LIST, renders, fan>>

Next == Tick \/ Create \/ UpdateContent \/ Rename \/ MarkAsDeleted

Spec == Init /\ [][Next]_vars

(* The same wiki with the re-rendering of topics.                          *)

NextSave == Create \/ UpdateContent \/ Rename \/ MarkAsDeleted \/ Resave

SpecSave == Init /\ [][NextSave]_vars


(* The write-lock operations on a wiki that holds one topic.               *)

EmptyDB == [topics |-> <<>>, nascents |-> {}, versions |-> <<>>]

InitLock ==
    /\ \E o \in {SaveNew(EmptyDB,
                       NewTopic(<<"B">>, "ann",
                                Link(<<"c">>) \o <<" ">> \o Link(<<"B">>), 0),
                       [i \in 1..MaxTopics |-> i])} :
           /\ topics = o.db.topics
           /\ nascents = o.db.nascents
           /\ versions = o.db.versions
    /\ writelocks = {}
    /\ now = 0
    /\ last = Call("init", 0, None, FALSE, <<>>, "ok", <<>>)
    /\ sent = <<>>
    /\ calls = NoCalls
    /\ TOPIC_LIST = TopicList
    /\ renders = NoRenders
    /\ fan = NoFan

NextLock == LockTick \/ GetWriteLock \/ ReleaseWriteLock

SpecLock == InitLock /\ [][NextLock]_vars


(* The editing operations on a wiki that holds an open topic and a locked  *)
(* one.                                                                    *)

InitEdit ==
    /\ \E o1 \in {SaveNew(EmptyDB,
                        NewTopic(<<"B">>, "ann",
                                 Link(<<"c">>) \o <<" ">> \o Link(<<"B">>), 0),
                        [i \in 1..MaxTopics |-> i])} :
       \E o2 \in {SaveNew(o1.db,
                        [NewTopic(<<"c">>, "staff", Link(<<"B">>), 0)
                           EXCEPT !.locked = TRUE],
                        [i \in 1..MaxTopics |-> i])} :
           /\ topics = o2.db.topics
           /\ nascents = o2.db.nascents
           /\ versions = o2.db.versions
    /\ writelocks = {}
    /\ now = 0
    /\ last = Call("init", 0, None, FALSE, <<>>, "ok", <<>>)
    /\ sent = <<>>
    /\ calls = NoCalls
    /\ TOPIC_LIST = TopicList
    /\ renders = NoRenders
    /\ fan = NoFan

\* the clock advances
EditTick ==
    /\ now < MaxEditNow
    /\ now' = now + 1
    /\ last' = Call("tick", 0, None, FALSE, <<>>, "ok", <<>>)
    /\ sent' = <<>>
    /\ UNCHANGED <<topics, nascents, versions, writelocks, calls, TOPIC_LIST, renders, fan>>

NextEdit == EditTick \/ UpdateContent \/ Rename \/ MarkAsDeleted \/ Revert

SpecEdit == InitEdit /\ [][NextEdit]_vars


(* The operations that write Topic and TopicVersion rows together, on a    *)
(* wiki that starts with one topic: creation, the editing operations with  *)
(* their handlers, and the taking of write locks.                          *)

NextAll ==
    \/ Create \/ UpdateContent \/ Revert \/ Rename \/ MarkAsDeleted
    \/ GetWriteLock

SpecAll == InitLock /\ [][NextAll]_vars


(* Renders that share TOPIC_LIST: prerender_content in two threads and the *)
(* creole template filter in a third, each statement of theirs that reads  *)
(* or writes TOPIC_LIST a step of its own.                                 *)

\* the texts the threads render
Docs ==
    {Link(<<"B">>) \o Link(<<"b">>), Link(<<"c">>),
     Subtopics(<<"b">>) \o Link(<<"c">>)}

\* a mutex that is never found held
lock_free_always(list) == list.holder \in Threads \cup {None}

\* self.lock.acquire() can return: the mutex is not held
lock_free(list) == list.holder = None

\* TopicList.clear_and_lock, once acquire() has returned in thread t
clear_and_lock(list, t) ==
    [list EXCEPT !.holder = t, !.topics = <<>>, !.topics_case = {},
                 !.extra_references = {}]

\* TopicList.unlock
unlock(list) == [list EXCEPT !.holder = None]

\* TopicList.path_fn
path_fn(list, topic_name) ==
    IF \E k \in DOMAIN list.topics : list.topics[k] = lower(topic_name)
    THEN list
    ELSE [list EXCEPT
            !.topics = Append(@, lower(topic_name)),
            !.topics_case = {p \in @ : p[1] # lower(topic_name)}
                                \cup {<<lower(topic_name), topic_name>>}]

\* the wiki links of the text, then its subtopics macros: the calls the
\* parser makes on path_fn and on macro_fn while it renders the text
RenderCalls(raw) ==
    [k \in 1..Len(LinkTargets(raw)) |-> [fn |-> "path_fn", arg |-> LinkTargets(raw)[k]]]
    \o [k \in 1..Len(MacroArgs(raw, 1)) |-> [fn |-> "macro_fn", arg |-> MacroArgs(raw, 1)[k]]]

ScanStep(op, t) == Call(op, renders[t].id, None, FALSE, <<>>, "ok", <<>>) @@ [thread |-> t]

\* a thread enters prerender_content of a topic, or the filter with a text
ScanStart(t) ==
    /\ renders[t].pc = "idle"
    /\ \E id \in Live(DB), raw \in Docs :
           renders' = [renders EXCEPT ![t] =
                          [pc |-> "entered", id |-> IF t \in Prerenders THEN id ELSE 0,
                           raw |-> raw, pos |-> 1, out |-> None]]
    /\ last' = Call("render", 0, None, FALSE, <<>>, "ok", <<>>) @@ [thread |-> t]
    /\ sent' = <<>>
    /\ UNCHANGED <<topics, nascents, versions, writelocks, now, calls, TOPIC_LIST, fan>>

\* TOPIC_LIST.clear_and_lock(); TOPIC_LIST.current_topic = self.name
ScanLock(t) ==
    /\ renders[t].pc = "entered"
    /\ lock_free(TOPIC_LIST)
    /\ TOPIC_LIST' =
          [clear_and_lock(TOPIC_LIST, t) EXCEPT
              !.current_topic = IF t \in Prerenders THEN topics[renders[t].id].name
                                ELSE @]
    /\ renders' = [renders EXCEPT ![t].pc = "rendering"]
    /\ last' = ScanStep("clear_and_lock", t)
    /\ sent' = <<>>
    /\ UNCHANGED <<topics, nascents, versions, writelocks, now, calls, fan>>

\* the parser reaches the next wiki link or macro of the text
ScanCall(t) ==
    /\ renders[t].pc = "rendering"
    /\ renders[t].pos <= Len(RenderCalls(renders[t].raw))
    /\ \E c \in {RenderCalls(renders[t].raw)[renders[t].pos]} :
           TOPIC_LIST' =
               IF c.fn = "path_fn" THEN path_fn(TOPIC_LIST, c.arg)
               ELSE [TOPIC_LIST EXCEPT
                       !.extra_references = @ \cup output_subtopics(DB, c.arg)]
    /\ renders' = [renders EXCEPT ![t].pos = @ + 1]
    /\ last' = ScanStep("parser.render", t)
    /\ sent' = <<>>
    /\ UNCHANGED <<topics, nascents, versions, writelocks, now, calls, fan>>

\* prerender_content copies the topics, the casing and the extra references
\* out of TOPIC_LIST (the filter copies nothing)
ScanCopy(t) ==
    /\ renders[t].pc = "rendering"
    /\ renders[t].pos > Len(RenderCalls(renders[t].raw))
    /\ renders' = [renders EXCEPT
                      ![t].pc = "rendered",
                      ![t].out = IF t \in Filters THEN None
                                 ELSE [topics |-> Range(TOPIC_LIST.topics),
                                       topics_case |-> TOPIC_LIST.topics_case,
                                       extra_references |->
                                           TOPIC_LIST.extra_references]]
    /\ last' = ScanStep("copy", t)
    /\ sent' = <<>>
    /\ UNCHANGED <<topics, nascents, versions, writelocks, now, calls, TOPIC_LIST, fan>>

\* finally: TOPIC_LIST.current_topic = None; TOPIC_LIST.unlock()
ScanUnlock(t) ==
    /\ renders[t].pc = "rendered"
    /\ TOPIC_LIST' =
          [unlock(TOPIC_LIST) EXCEPT
              !.current_topic = IF t \in Prerenders THEN None ELSE @]
    /\ renders' = [renders EXCEPT ![t].pc = "done"]
    /\ last' = ScanStep("unlock", t)
    /\ sent' = <<>>
    /\ UNCHANGED <<topics, nascents, versions, writelocks, now, calls, fan>>

\* the thread goes on with what it copied and leaves the render
ScanReturn(t) ==
    /\ renders[t].pc = "done"
    /\ renders' = [renders EXCEPT ![t] = NoRender]
    /\ last' = ScanStep("return", t)
    /\ sent' = <<>>
    /\ UNCHANGED <<topics, nascents, versions, writelocks, now, calls, TOPIC_LIST, fan>>

InitScan ==
    /\ \E o1 \in {SaveNew(EmptyDB, NewTopic(<<"B">>, "ann", <<>>, 0),
                        [i \in 1..MaxTopics |-> i])} :
       \E o2 \in {SaveNew(o1.db, NewTopic(<<"b", ".", "a">>, "ann", <<>>, 0),
                        [i \in 1..MaxTopics |-> i])} :
           /\ topics = o2.db.topics
           /\ nascents = o2.db.nascents
           /\ versions = o2.db.versions
    /\ writelocks = {}
    /\ now = 0
    /\ last = Call("init", 0, None, FALSE, <<>>, "ok", <<>>)
    /\ sent = <<>>
    /\ calls = NoCalls
    /\ TOPIC_LIST = TopicList
    /\ renders = NoRenders
    /\ fan = NoFan

NextScan ==
    \/ \E t \in Threads : ScanStart(t)
    \/ \E t \in Threads : ScanLock(t)
    \/ \E t \in Threads : ScanCall(t)
    \/ \E t \in Threads : ScanCopy(t)
    \/ \E t \in Threads : ScanUnlock(t)
    \/ \E t \in Threads : ScanReturn(t)

SpecScan == InitScan /\ [][NextScan]_vars


(* get_write_lock(user, force = False) run by both users at once on the    *)
(* one topic, each call on the instance it loaded, its database reads and  *)
(* writes interleaved with the other's.                                    *)

\* wl = WriteLock(owner = user, expiry = utcnow() + WRITE_LOCK_EXPIRY)
new_write_lock(locks, user, t) ==
    [id |-> NewLockId(locks), owner |-> user, expiry |-> t + WRITE_LOCK_EXPIRY]

\* an attach that deletes the WriteLock row the topic's row pointed at
attach_write_lock_replacing(db, locks, inst, id) ==
    LockOutcome(SaveExisting(db, [inst EXCEPT !.write_lock = id], FALSE).db,
                {wl \in locks : wl.id # db.topics[inst.id].write_lock},
                TRUE)

\* self.write_lock = wl; self.save(render = False); return True
attach_write_lock(db, locks, inst, id) ==
    LockOutcome(SaveExisting(db, [inst EXCEPT !.write_lock = id], FALSE).db,
                locks, TRUE)

Step(op, user) == Call(op, 1, user, FALSE, <<>>, "ok", <<>>)

\* topic = Topic.objects.get(...); topic.get_write_lock(user) is entered
RaceLoad(u) ==
    /\ calls[u].pc = "idle"
    /\ 1 \in Live(DB)
    /\ calls' = [calls EXCEPT ![u] = [pc |-> "loaded", inst |-> Load(DB, 1),
                                      wl |-> 0, ret |-> FALSE]]
    /\ last' = Step("load", u)
    /\ sent' = <<>>
    /\ UNCHANGED <<topics, nascents, versions, writelocks, now, TOPIC_LIST, renders, fan>>

\* self.write_lock is None: the WriteLock row is created and saved
RaceCreate(u) ==
    /\ calls[u].pc = "loaded"
    /\ calls[u].inst.write_lock = 0
    /\ \E wl \in {new_write_lock(writelocks, u, now)} :
           /\ writelocks' = writelocks \cup {wl}
           /\ calls' = [calls EXCEPT ![u].pc = "created", ![u].wl = wl.id]
    /\ last' = Step("wl.save", u)
    /\ sent' = <<>>
    /\ UNCHANGED <<topics, nascents, versions, now, TOPIC_LIST, renders, fan>>

\* the topic is saved with the new write lock, and the call returns True
RaceAttach(u) ==
    /\ calls[u].pc = "created"
    /\ \E o \in {attach_write_lock(DB, writelocks, calls[u].inst, calls[u].wl)} :
           /\ Commit(o.db)
           /\ writelocks' = o.locks
           /\ calls' = [calls EXCEPT ![u].pc = "done", ![u].ret = o.ret]
    /\ last' = Step("self.save", u)
    /\ sent' = <<>>
    /\ UNCHANGED <<now, TOPIC_LIST, renders, fan>>

\* self.write_lock is not None: the rest of the method
RaceRest(u) ==
    /\ calls[u].pc = "loaded"
    /\ calls[u].inst.write_lock # 0
    /\ \E o \in {get_write_lock(DB, writelocks, calls[u].inst, u, FALSE, now)} :
           /\ Commit(o.db)
           /\ writelocks' = o.locks
           /\ calls' = [calls EXCEPT ![u].pc = "done", ![u].ret = o.ret]
    /\ last' = Step("locked", u)
    /\ sent' = <<>>
    /\ UNCHANGED <<now, TOPIC_LIST, renders, fan>>

\* the caller drops the instance
RaceReturn(u) ==
    /\ calls[u].pc = "done"
    /\ calls' = [calls EXCEPT ![u] = NoCall]
    /\ last' = Step("return", u)
    /\ sent' = <<>>
    /\ UNCHANGED <<topics, nascents, versions, writelocks, now, TOPIC_LIST, renders, fan>>

\* the clock advances by a minute
RaceTick ==
    /\ now < MaxRaceNow
    /\ now' = now + 1
    /\ last' = Call("tick", 0, None, FALSE, <<>>, "ok", <<>>)
    /\ sent' = <<>>
    /\ UNCHANGED <<topics, nascents, versions, writelocks, calls, TOPIC_LIST, renders, fan>>

NextRace ==
    \/ RaceTick
    \/ \E u \in Users : RaceLoad(u)
    \/ \E u \in Users : RaceCreate(u)
    \/ \E u \in Users : RaceAttach(u)
    \/ \E u \in Users : RaceRest(u)
    \/ \E u \in Users : RaceReturn(u)

SpecRace == InitLock /\ [][NextRace]_vars

\* the editing operations and the write-lock operations on one wiki
NextFrame ==
    \/ UpdateContent \/ Revert \/ Rename \/ MarkAsDeleted
    \/ GetWriteLock \/ ReleaseWriteLock

SpecFrame == InitEdit /\ [][NextFrame]_vars

----------------------------------------------------------------------------
(* Two saves of different topics at once.  After the scanner lock is       *)
(* released prerender_content reads the Topic and NascentTopic tables,     *)
(* writes the relations, and then inserts the NascentTopics it found       *)
(* missing; another save can run between the read and the inserts.         *)

\* self.nascent_topics.create(name, lc_name, author): NascentTopic.name and
\* NascentTopic.lc_name are unique, so the insert of a second row of that
\* name raises IntegrityError
nascent_topics_create(db, id, name, author) ==
    IF \E n \in db.nascents : n.name = name \/ n.lc_name = lower(name)
    THEN Outcome(db, id, "IntegrityError")
    ELSE Outcome([db EXCEPT
                    !.nascents = @ \cup NascentTopic_save(name, author),
                    !.topics[id].nascent_topics = @ \cup {lower(name)}],
                 id, "ok")

\* for topic in does_not_exist: self.nascent_topics.create(...)
RECURSIVE create_missing(_, _, _, _, _)
create_missing(db, id, todo, targets, author) ==
    IF todo = {} THEN Outcome(db, id, "ok")
    ELSE Only({Only({IF c.err # "ok" THEN c
                     ELSE create_missing(c.db, id, todo \ {lc}, targets, author)
                     : c \in {nascent_topics_create(db, id,
                                   topics_case(targets, lc), author)}})
               : lc \in {CHOOSE x \in todo : TRUE}})

\* the call of thread t as a step of the reconciliation
ReconcileStep(op, t, id, err) ==
    Call(op, id, None, FALSE, <<>>, err, <<>>) @@ [thread |-> t]

\* topic.content_raw = content; topic.save() on thread t, up to and including
\* self.nascent_topics = nascent (models.py 840-885)
ReconcileQuery(t) ==
    /\ renders[t].pc = "idle"
    /\ \E id \in Live(DB), content \in Contents :
       \E r \in {Render(DB, content)} :
           /\ \A u \in Prerenders : renders[u].pc # "idle" => renders[u].id # id
           /\ IF \E x \in r.topics : ~ valid_name(x)
              THEN /\ Commit(DB)
                   /\ renders' = [renders EXCEPT ![t] =
                          [pc |-> "failed", id |-> id, raw |-> content, pos |-> 0,
                           out |-> None]]
                   /\ last' = ReconcileStep("prerender_content", t, id, "BadName")
              ELSE \E references \in {ByLcNameIn(DB, r.topics)} :
                   \E does_not_exist \in
                        {r.topics \ {lower(topics[i].name) : i \in references}} :
                   \E nascent \in
                        {{n.lc_name : n \in {x \in nascents :
                                                x.lc_name \in does_not_exist}}} :
                       /\ Commit([DB EXCEPT
                              !.topics[id].references =
                                  references \cup r.extra_references,
                              !.topics[id].nascent_topics = nascent])
                       /\ renders' = [renders EXCEPT ![t] =
                              [pc |-> "reconciling", id |-> id, raw |-> content,
                               pos |-> 0,
                               out |-> [formatted |-> r.formatted,
                                        targets |-> r.targets,
                                        does_not_exist |-> does_not_exist \ nascent]]]
                       /\ last' = ReconcileStep("prerender_content", t, id, "ok")
    /\ sent' = <<>>
    /\ UNCHANGED <<writelocks, now, calls, TOPIC_LIST, fan>>

\* the rest of the save on thread t: the inserts of the missing NascentTopics
\* (models.py 891-895) and super().save
ReconcileCreate(t) ==
    /\ renders[t].pc = "reconciling"
    /\ \E id \in {renders[t].id} :
       \E c \in {create_missing(DB, id, renders[t].out.does_not_exist,
                                 renders[t].out.targets, topics[id].author)} :
           /\ Commit(IF c.err # "ok" THEN c.db
                     ELSE [c.db EXCEPT
                             !.topics[id].content_raw = renders[t].raw,
                             !.topics[id].content_formatted =
                                 renders[t].out.formatted])
           /\ renders' = [renders EXCEPT
                            ![t].pc = IF c.err = "ok" THEN "done" ELSE "failed"]
           /\ last' = ReconcileStep("save", t, id, c.err)
    /\ sent' = <<>>
    /\ UNCHANGED <<writelocks, now, calls, TOPIC_LIST, fan>>

\* both saves have returned or raised; the threads take their next requests
ReconcileReturn ==
    /\ \A t \in Prerenders : renders[t].pc \in {"done", "failed"}
    /\ renders' = NoRenders
    /\ last' = Call("return", 0, None, FALSE, <<>>, "ok", <<>>)
    /\ sent' = <<>>
    /\ UNCHANGED <<topics, nascents, versions, writelocks, now, calls, TOPIC_LIST, fan>>

NextReconcile ==
    \/ \E t \in Prerenders : ReconcileQuery(t)
    \/ \E t \in Prerenders : ReconcileCreate(t)
    \/ ReconcileReturn

SpecReconcile == InitScan /\ [][NextReconcile]_vars

----------------------------------------------------------------------------
(* The signal handlers, one topic at a time.  Django delivers a signal by  *)
(* calling its handler inside send(); fan.stack holds the handlers that    *)
(* are running, innermost first, each with the topics its loop has still   *)
(* to save.                                                                *)

\* a Topic.save that sends topic_created whether or not the row is new
save_signals_always(inst) == <<"topic_created">>

\* Topic.save: the signals it sends, topic_created for a row that is new
save_signals(inst) == IF inst.id = 0 THEN <<"topic_created">> ELSE <<>>

\* Topic.save of an instance that has no row yet, up to topic_created.send
save_new_row(db, inst0) ==
    LET inst == [inst0 EXCEPT !.lc_name = lower(inst0.name)]
    IN  IF ~ valid_name(inst.name) THEN Outcome(db, inst, "BadName")
        ELSE Only({
               IF p1.err # "ok" THEN p1
               ELSE Only({IF p2.err # "ok" THEN p2
                          ELSE Outcome(ModelSave(p2.db, p2.inst), p2.inst, "ok")
                          : p2 \in {prerender_content(
                                       ModelSave(db, p1.inst),
                                       [p1.inst EXCEPT !.id = Len(db.topics) + 1],
                                       TRUE)}})
               : p1 \in {prerender_content(db, inst, FALSE)}})

\* Topic.rename up to topic_renamed.send
rename_row(db, inst, user, new_name, reason, t) ==
    IF inst.locked /\ ~ is_staff(user) THEN Outcome(db, inst, "PermissionDenied")
    ELSE IF ByNameExact(db, new_name) # {} THEN Outcome(db, inst, "TopicExists")
    ELSE LET why == IF reason = NoReason
                    THEN <<"renamed", inst.name, new_name, user>> ELSE reason
             v == new_version(db, inst, user, why)
         IN  SaveExisting(v.db, [v.inst EXCEPT !.name = new_name, !.modified = t],
                          TRUE)

\* Topic.mark_as_deleted up to topic_deleted.send
mark_as_deleted_row(db, inst, user, reason, t) ==
    IF inst.locked /\ ~ is_staff(user) THEN Outcome(db, inst, "PermissionDenied")
    ELSE LET why == IF reason = NoReason THEN <<"deleted", inst.name, user>>
                    ELSE reason
             v == new_version(db, inst, user, why)
         IN  SaveExisting(v.db, [v.inst EXCEPT !.deleted = TRUE, !.modified = t],
                          TRUE)

\* catch_topic_created as it starts: the NascentTopic it found (<<>> for
\* DoesNotExist) and the topics of nascent.topic_set.all()
catch_topic_created_frame(db, sender, rank) ==
    LET found == {n \in db.nascents :
                    lower(n.name) = lower(lower(db.topics[sender].name))}
    IN  IF found = {}
        THEN [handler |-> "catch_topic_created", sender |-> sender,
              old_name |-> <<>>, nascent |-> <<>>, todo |-> <<>>]
        ELSE Only({[handler |-> "catch_topic_created", sender |-> sender,
                    old_name |-> <<>>, nascent |-> nascent.lc_name,
                    todo |-> Ordered(db, topic_set(db, nascent.lc_name), rank)]
                   : nascent \in {CHOOSE n \in found : TRUE}})

\* the handler connected to signal as it starts (models.py 1485-1487)
HandlerFrame(db, signal, sender, old_name, rank) ==
    IF signal = "topic_created" THEN catch_topic_created_frame(db, sender, rank)
    ELSE [handler |-> IF signal = "topic_renamed" THEN "catch_topic_renamed"
                      ELSE "catch_topic_deleted",
          sender |-> sender, old_name |-> old_name, nascent |-> <<>>,
          todo |-> Ordered(db, referenced_by(db, sender), rank)]

\* the handlers of the signals a call has sent, in the order sent
Frames(db, signals, sender, old_name, rank) ==
    [k \in 1..Len(signals) |-> HandlerFrame(db, signals[k], sender, old_name, rank)]

\* the state of the handlers when an operation has sent signals ev
Started(o, ev, old_name, rank, expect) ==
    [stack |-> IF o.err = "ok" THEN Frames(o.db, ev, o.inst.id, old_name, rank)
               ELSE <<>>,
     events |-> ev, saved |-> NoFan.saved, rank |-> rank, err |-> o.err,
     expect |-> expect]

\* Topic(name, author, content_raw).save(), up to its first handler
FanCreate ==
    \E user \in Authors, name \in CreateNames, content \in Contents, rank \in Ranks :
        /\ fan.stack = <<>>
        /\ Len(topics) < MaxTopics
        /\ \E new \in {NewTopic(name, user, content, now)} :
           \E o \in {save_new_row(DB, new)} :
           \E ev \in {IF o.err = "ok" THEN save_signals(new) ELSE <<>>} :
               /\ Commit(o.db)
               /\ fan' = Started(o, ev, <<>>, rank, SaveNew(DB, new, rank).db)
               /\ last' = Call("create", o.inst.id, None, FALSE, <<>>, o.err, ev)
        /\ sent' = <<>>
        /\ UNCHANGED <<writelocks, now, calls, TOPIC_LIST, renders>>

\* Topic.objects.get(...).rename(user, new_name), up to its first handler
FanRename ==
    \E id \in Live(DB), user \in Users, new_name \in RenameNames, rank \in Ranks :
        /\ fan.stack = <<>>
        /\ Len(versions) < MaxVersions
        /\ \E o \in {rename_row(DB, Load(DB, id), user, new_name, NoReason, now)} :
           \E ev \in {IF o.err = "ok"
                      THEN save_signals(Load(DB, id)) \o <<"topic_renamed">>
                      ELSE <<>>} :
               /\ Commit(o.db)
               /\ fan' = Started(o, ev, topics[id].name, rank,
                                 rename(DB, Load(DB, id), user, new_name, NoReason,
                                        now, rank).db)
               /\ last' = Call("rename", id, user, FALSE, <<>>, o.err, ev)
        /\ sent' = <<>>
        /\ UNCHANGED <<writelocks, now, calls, TOPIC_LIST, renders>>

\* Topic.objects.get(...).mark_as_deleted(user), up to its first handler
FanMarkAsDeleted ==
    \E id \in Live(DB), user \in Users, rank \in Ranks :
        /\ fan.stack = <<>>
        /\ Len(versions) < MaxVersions
        /\ \E o \in {mark_as_deleted_row(DB, Load(DB, id), user, NoReason, now)} :
           \E ev \in {IF o.err = "ok"
                      THEN save_signals(Load(DB, id)) \o <<"topic_deleted">>
                      ELSE <<>>} :
               /\ Commit(o.db)
               /\ fan' = Started(o, ev, <<>>, rank,
                                 mark_as_deleted(DB, Load(DB, id), user, NoReason,
                                                 now, rank).db)
               /\ last' = Call("mark_as_deleted", id, user, FALSE, <<>>, o.err, ev)
        /\ sent' = <<>>
        /\ UNCHANGED <<writelocks, now, calls, TOPIC_LIST, renders>>

\* one turn of the loop of the innermost handler: topic.save(), or
\* topic.rename_referenced_topic(old_name, sender.name)
FanStep ==
    /\ fan.stack # <<>>
    /\ Head(fan.stack).todo # <<>>
    /\ \E f \in {Head(fan.stack)} :
       \E id \in {Head(Head(fan.stack).todo)} :
       \E o \in {IF f.handler = "catch_topic_renamed"
                 THEN rename_referenced_topic(DB, Load(DB, id), f.old_name,
                                              topics[f.sender].name)
                 ELSE SaveExisting(DB, Load(DB, id), TRUE)} :
       \E ev \in {IF o.err = "ok" THEN save_signals(Load(DB, id)) ELSE <<>>} :
           /\ Commit(o.db)
           /\ fan' = IF o.err # "ok"
                     THEN [fan EXCEPT !.stack = <<>>, !.err = o.err]
                     ELSE [fan EXCEPT
                             !.stack = Frames(o.db, ev, id, <<>>, fan.rank)
                                       \o <<[f EXCEPT !.todo = Tail(@)]>>
                                       \o Tail(@),
                             !.events = @ \o ev,
                             !.saved[id] = @ + 1]
           /\ last' = Call("save", id, None, FALSE, <<>>, o.err, ev)
    /\ sent' = <<>>
    /\ UNCHANGED <<writelocks, now, calls, TOPIC_LIST, renders>>

\* the loop of the innermost handler is over: catch_topic_renamed goes on
\* into catch_topic_created, catch_topic_created deletes the NascentTopic it
\* found, and the handler returns
FanDone ==
    /\ fan.stack # <<>>
    /\ Head(fan.stack).todo = <<>>
    /\ \E f \in {Head(fan.stack)} :
           /\ IF f.handler = "catch_topic_renamed"
              THEN /\ Commit(DB)
                   /\ fan' = [fan EXCEPT !.stack =
                                <<catch_topic_created_frame(DB, f.sender, fan.rank)>>
                                \o Tail(@)]
              ELSE /\ Commit(IF f.nascent # <<>> THEN NascentDelete(DB, f.nascent)
                             ELSE DB)
                   /\ fan' = [fan EXCEPT !.stack = Tail(@)]
           /\ last' = Call("return", f.sender, None, FALSE, <<>>, "ok", <<>>)
    /\ sent' = <<>>
    /\ UNCHANGED <<writelocks, now, calls, TOPIC_LIST, renders>>

\* a wiki of one topic "c" that links to a topic "B" nobody has created
InitRefer ==
    /\ \E o \in {SaveNew(EmptyDB, NewTopic(<<"c">>, "ann", Link(<<"B">>), 0),
                       [i \in 1..MaxTopics |-> i])} :
           /\ topics = o.db.topics
           /\ nascents = o.db.nascents
           /\ versions = o.db.versions
    /\ writelocks = {}
    /\ now = 0
    /\ last = Call("init", 0, None, FALSE, <<>>, "ok", <<>>)
    /\ sent = <<>>
    /\ calls = NoCalls
    /\ TOPIC_LIST = TopicList
    /\ renders = NoRenders
    /\ fan = NoFan

\* the wiki the handlers start from: one topic that links to a topic still
\* to be created, or two topics that link to each other, one of them to
\* itself as well
InitFan == InitRefer \/ InitEdit

NextFan == FanCreate \/ FanRename \/ FanMarkAsDeleted \/ FanStep \/ FanDone

SpecFan == InitFan /\ [][NextFan]_vars

\* a handler that has started runs on: nothing but the handler's own code
\* takes its steps
FairSpecFan == SpecFan /\ WF_vars(FanStep) /\ WF_vars(FanDone)

----------------------------------------------------------------------------
(* Properties.  A step "is" a call when the call record of its second      *)
(* state names it: every action writes the record.                         *)

\* raw holds a wiki link that the wiki resolves to name
LinksTo(raw, name) ==
    \E k \in 1..Len(LinkTargets(raw)) : lower(LinkTargets(raw)[k]) = lower(name)

\* raw holds the text [[name followed by ]] or |
WritesLink(raw, name) ==
    \E i \in 1..Len(raw) :
        /\ startswith(SubSeq(raw, i, Len(raw)), <<"[", "[">> \o name)
        /\ \/ startswith(SubSeq(raw, i + Len(name) + 2, Len(raw)), <<"]", "]">>)
           \/ startswith(SubSeq(raw, i + Len(name) + 2, Len(raw)), <<"|">>)

LiveIds(tt) == {i \in DOMAIN tt : ~ tt[i].deleted}

\* no two live topics of tt share a lower-cased name
OneLivePerName(tt) ==
    \A i, j \in LiveIds(tt) : tt[i].lc_name = tt[j].lc_name => i = j

\* the step is a call of op that returned normally
Did(op) == last'.op = op /\ last'.err = "ok"

\* C1: rename propagation.  If live topic A's raw content links to B and
\* A.references contains B, then after B.rename(user, C) with C valid and
\* unused, A's raw content holds [[C]], links to B's old name no more, and
\* A.references contains the renamed topic.
C1_RenamePropagates ==
    [][Did("rename") =>
        LET b == last'.id
            old == topics[b].name
            new == topics'[b].name
        IN  \A a \in LiveIds(topics) \ {b} :
                ( /\ LinksTo(topics[a].content_raw, old)
                  /\ b \in topics[a].references
                  /\ OneLivePerName(topics)
                  /\ valid_name(new)
                  /\ ByNameIexact(DB, new) = {} )
                => /\ WritesLink(topics'[a].content_raw, new)
                   /\ ~ LinksTo(topics'[a].content_raw, old)
                   /\ b \in topics'[a].references]_vars

\* the versions of topic id among vv
VersionsOf(vv, id) == {k \in DOMAIN vv : vv[k].topic = id}

\* C2: rename propagation is versioned.  When B is renamed while A links to
\* it, the rewrite of A's raw content appends exactly one TopicVersion to A,
\* holding A's raw content from before the rewrite.
C2_RenameFanoutVersioned ==
    [][Did("rename") =>
        LET b == last'.id
        IN  \A a \in LiveIds(topics) \ {b} :
                ( /\ LinksTo(topics[a].content_raw, topics[b].name)
                  /\ b \in topics[a].references
                  /\ OneLivePerName(topics)
                  /\ topics'[a].content_raw # topics[a].content_raw )
                => \E k \in VersionsOf(versions', a) :
                      /\ VersionsOf(versions', a) = VersionsOf(versions, a) \cup {k}
                      /\ k \notin VersionsOf(versions, a)
                      /\ versions'[k].content_raw = topics[a].content_raw]_vars

\* some nascent topic row carries the lower-cased name lc
HasNascent(nn, lc) == \E n \in nn : n.lc_name = lc

\* C3: nascent resolution.  Creating topic A whose content links to a name
\* with no live topic leaves a NascentTopic of that name, referenced by A.
\* Creating topic B re-renders every topic that referenced NascentTopic B:
\* afterwards its references contain B, its nascent_topics hold B's name no
\* more, its raw content is the same, and NascentTopic B is gone.
C3_NascentResolution ==
    [][Did("create") =>
        LET n == last'.id
            targets == LinkTargets(topics'[n].content_raw)
        IN  /\ \A k \in 1..Len(targets) :
                ( /\ ByNameIexact(DB, targets[k]) = {}
                  /\ lower(targets[k]) # topics'[n].lc_name )
                => /\ HasNascent(nascents', lower(targets[k]))
                   /\ lower(targets[k]) \in topics'[n].nascent_topics
            /\ \A a \in LiveIds(topics) :
                topics'[n].lc_name \in topics[a].nascent_topics
                => /\ n \in topics'[a].references
                   /\ topics'[n].lc_name \notin topics'[a].nascent_topics
                   /\ topics'[a].content_raw = topics[a].content_raw
                   /\ ~ HasNascent(nascents', topics'[n].lc_name)]_vars

C3_Witness ==
    /\ last.op = "create" /\ last.err = "ok"
    /\ \E a \in LiveIds(topics) :
        /\ a < last.id
        /\ LinksTo(topics[a].content_raw, topics[last.id].name)
        /\ last.id \in topics[a].references
        /\ ~ HasNascent(nascents, topics[last.id].lc_name)

\* the wiki links of topic row t to name, as they were rendered
RenderedLinks(t, name) ==
    {k \in DOMAIN t.content_formatted.links :
        lower(t.content_formatted.links[k][1]) = lower(name)}

\* C4: delete propagation.  If live topic A links to live topic B and
\* A.references contains B, then after B.mark_as_deleted(user): A.references
\* contains B no more, A's links to B are rendered as non-existent, a
\* NascentTopic of B's name exists and is in A.nascent_topics, and A's raw
\* content is unchanged.
C4_DeletePropagates ==
    [][Did("mark_as_deleted") =>
        LET b == last'.id
        IN  \A a \in LiveIds(topics) \ {b} :
                ( /\ b \in topics[a].references
                  /\ LinksTo(topics[a].content_raw, topics[b].name) )
                => /\ b \notin topics'[a].references
                   /\ \A k \in RenderedLinks(topics'[a], topics[b].name) :
                        topics'[a].content_formatted.links[k][2] = "nonexistent"
                   /\ HasNascent(nascents', topics[b].lc_name)
                   /\ topics[b].lc_name \in topics'[a].nascent_topics
                   /\ topics'[a].content_raw = topics[a].content_raw]_vars

C6_OneLivePerName == OneLivePerName(topics)

\* C7: no NascentTopic has the lower-cased name of a non-deleted Topic.
C7_NascentExcludesLive ==
    \A i \in LiveIds(topics) : ~ HasNascent(nascents, topics[i].lc_name)

C7_Witness ==
    /\ last.op = "create" /\ last.err = "ok"
    /\ nascents # {}
    /\ \E a \in LiveIds(topics) :
        /\ a < last.id
        /\ topics[a].nascent_topics # {}
        /\ last.id \in topics[a].references

\* the step is a get_write_lock call
DidLock == last'.op = "get_write_lock"

\* the topic the step's call was made on, before the call
Callee == topics[last'.id]

\* C8: get_write_lock(user, force=False) on a topic whose write lock is owned
\* by another user and has expiry >= now returns False and changes neither
\* the lock's owner nor its expiry.
C8_HeldLockRefused ==
    [][( /\ DidLock
         /\ ~ last'.force
         /\ Callee.write_lock # 0
         /\ LockOf(writelocks, Callee).owner # last'.user
         /\ LockOf(writelocks, Callee).expiry >= now )
       => /\ last'.err = "False"
          /\ writelocks' = writelocks
          /\ topics' = topics]_vars

C8_Witness ==
    /\ last.op = "get_write_lock" /\ last.err = "False"
    /\ ~ last.force
    /\ last.held # <<>>
    /\ last.held[1] # last.user
    /\ last.held[2] >= now

OwnFreshLock ==
    /\ Callee.write_lock # 0
    /\ LockOf(writelocks, Callee).owner = last'.user
    /\ LockOf(writelocks, Callee).expiry - now >= RENEWAL_WINDOW

C10_FreeLockGranted ==
    [][( /\ DidLock
         /\ \/ Callee.write_lock = 0
            \/ /\ LockOf(writelocks, Callee).owner # last'.user
               /\ LockOf(writelocks, Callee).expiry < now )
       => /\ last'.err = "True"
          /\ topics'[last'.id].write_lock # 0
          /\ Cardinality({wl \in writelocks' :
                            wl.id = topics'[last'.id].write_lock}) = 1
          /\ Cardinality(writelocks') = 1
          /\ LockOf(writelocks', topics'[last'.id]).owner = last'.user
          /\ LockOf(writelocks', topics'[last'.id]).expiry
                = now + WRITE_LOCK_EXPIRY]_vars

C10_Witness ==
    /\ last.op = "get_write_lock" /\ last.err = "True"
    /\ ~ last.force
    /\ last.held # <<>>
    /\ last.held[1] # last.user
    /\ last.held[2] < now
    /\ writelocks = {[id |-> topics[last.id].write_lock, owner |-> last.user,
                      expiry |-> now + WRITE_LOCK_EXPIRY]}

DidRelease == last'.op = "release_write_lock"

\* the step unlocked the called topic and deleted its WriteLock row
Unlocked ==
    /\ last'.err = "True"
    /\ topics'[last'.id].write_lock = 0
    /\ writelocks' = writelocks \ {LockOf(writelocks, Callee)}
    /\ LockOf(writelocks, Callee) \in writelocks

\* C12: release_write_lock(user, force).  Without a lock it returns True and
\* changes nothing.  By the owner it returns True and unlocks.  By another
\* user without force on a lock with expiry >= now it returns False and
\* leaves owner and expiry as they were.  By another user on an expired lock
\* or with force it returns True and unlocks.  Unlocking deletes the
\* WriteLock row.
C12_Release ==
    [][DidRelease =>
        IF Callee.write_lock = 0
        THEN last'.err = "True" /\ topics' = topics /\ writelocks' = writelocks
        ELSE IF LockOf(writelocks, Callee).owner = last'.user THEN Unlocked
        ELSE IF ~ last'.force /\ LockOf(writelocks, Callee).expiry >= now
        THEN last'.err = "False" /\ topics' = topics /\ writelocks' = writelocks
        ELSE Unlocked]_vars

C12_Witness ==
    /\ last.op = "release_write_lock" /\ last.err = "True"
    /\ ~ last.force
    /\ last.held # <<>>
    /\ last.held[1] # last.user
    /\ last.held[2] < now
    /\ topics[last.id].write_lock = 0
    /\ writelocks = {}

\* C14: every successful update_content sends topic_modified with the trivial
\* flag it was given, and sends topic_notify if and only if trivial is false;
\* when each of them is sent the topic's row already holds the new content.
C14_UpdateSignals ==
    [][(Did("update_content") /\ last'.err = "ok")
       => /\ Len(sent') = (IF last'.trivial THEN 1 ELSE 2)
          /\ sent'[1].signal = "topic_modified"
          /\ sent'[1].args = <<last'.trivial>>
          /\ ~ last'.trivial => sent'[2].signal = "topic_notify"
          /\ \A i \in DOMAIN sent' :
                 /\ sent'[i].sender = last'.id
                 /\ sent'[i].persisted = last'.new_content
                 /\ sent'[i].content_raw = last'.new_content]_vars

C14_Witness ==
    /\ last.op = "update_content"
    /\ last.err = "ok"
    /\ ~ last.trivial
    /\ Len(sent) = 2
    /\ sent[2].signal = "topic_notify"
    /\ sent[2].persisted = last.new_content
    /\ \E k \in DOMAIN versions :
           /\ versions[k].topic = last.id
           /\ versions[k].content_raw # last.new_content

\* the step called revert on topic last'.id with row last'.version
DidRevert == last'.op = "revert"

\* C15: revert round trip.  After a successful T.revert(user, v, reason),
\* T.content_raw equals v.content_raw, exactly one TopicVersion has been
\* added, a version of T holding T's raw content from just before the
\* revert, and v and every other earlier version are unchanged.
C15_RevertRoundTrip ==
    [][(DidRevert /\ last'.err = "ok")
       => /\ versions[last'.version].topic = last'.id
          /\ topics'[last'.id].content_raw = versions[last'.version].content_raw
          /\ Len(versions') = Len(versions) + 1
          /\ SubSeq(versions', 1, Len(versions)) = versions
          /\ versions'[Len(versions')].topic = last'.id
          /\ versions'[Len(versions')].content_raw = Callee.content_raw
          /\ versions'[last'.version] = versions[last'.version]]_vars

C15_Witness ==
    /\ last.op = "revert"
    /\ last.err = "ok"
    /\ topics[last.id].content_raw = versions[last.version].content_raw
    /\ versions[Len(versions)].topic = last.id
    /\ versions[Len(versions)].content_raw # topics[last.id].content_raw
    /\ Cardinality(VersionsOf(versions, last.id)) = 2

\* C16: revert(user, v, reason) with v a version of another topic fails with
\* TopicException and leaves the topic's content, author, reason and version
\* history unchanged.
C16_RevertForeignVersion ==
    [][(DidRevert /\ versions[last'.version].topic # last'.id)
       => /\ last'.err = "TopicException"
          /\ topics'[last'.id].content_raw = Callee.content_raw
          /\ topics'[last'.id].author = Callee.author
          /\ topics'[last'.id].reason = Callee.reason
          /\ versions' = versions]_vars

\* the database after the step
DBAfter == [topics |-> topics', nascents |-> nascents', versions |-> versions']

\* C17: for valid names N and M, M distinct from N and unused, after a topic
\* named N is created and then renamed to M, Topic.objects.filter(name = N)
\* finds no live topic and Topic.objects.filter(name = M) finds that same
\* topic and no other, with its version history (the earlier rows, and the
\* row the rename added under the old name).
C17_CreateRenameLookup ==
    [][(Did("rename") /\ last.op = "create" /\ last.err = "ok" /\ last.id = last'.id)
       => /\ ByNameExact(DBAfter, Callee.name) = {}
          /\ ByNameExact(DBAfter, last'.new_name) = {last'.id}
          /\ SubSeq(versions', 1, Len(versions)) = versions
          /\ \E k \in VersionsOf(versions', last'.id) :
                 versions'[k].name = Callee.name]_vars

\* the step called save() on a new topic
DidCreate == last'.op = "create"

\* the name holds this character
Has(name, c) == \E i \in DOMAIN name : name[i] = c

\* the content links to a topic name that holds "/" or ":"
LinksToBadName(raw) ==
    \E t \in Render(DB, raw).topics : Has(t, "/") \/ Has(t, ":")

DidRename == last'.op = "rename"

\* C19: rename(user, new_name) fails with TopicExists whenever a live topic
\* has the same lower-cased name as new_name, and then creates no
\* TopicVersion and leaves the topic's name, author, reason and modified
\* time unchanged.  Stated here for a live topic other than the renamed one,
\* and for a caller the topic's locked flag does not stop.
C19_RenameToLiveName ==
    [][(DidRename /\ ~ (Callee.locked /\ ~ is_staff(last'.user))
          /\ ByNameIexact(DB, last'.new_name) \ {last'.id} # {})
       => /\ last'.err = "TopicExists"
          /\ versions' = versions
          /\ topics'[last'.id].name = Callee.name
          /\ topics'[last'.id].author = Callee.author
          /\ topics'[last'.id].reason = Callee.reason
          /\ topics'[last'.id].modified = Callee.modified]_vars

\* the step called one of the four editing methods on a locked topic
DidEditLocked ==
    /\ last'.op \in {"update_content", "revert", "rename", "mark_as_deleted"}
    /\ Callee.locked

\* the step's call failed with PermissionDenied, made no version, sent
\* nothing and left the tables as they were
Denied ==
    /\ last'.err = "PermissionDenied"
    /\ versions' = versions
    /\ last'.events = <<>>
    /\ sent' = <<>>
    /\ topics' = topics
    /\ nascents' = nascents

\* the revert of the step was given a version of another topic
ForeignRevert ==
    last'.op = "revert" /\ versions[last'.version].topic # last'.id

\* C20: on a topic with locked = true, update_content, revert, rename and
\* mark_as_deleted by a user who is not staff each fail with
\* PermissionDenied, create no TopicVersion, send no signal and leave every
\* field of the topic unchanged; by a staff user they are not refused for
\* this reason.
C20_LockedDenied ==
    [][DidEditLocked =>
         IF last'.user # "staff" THEN Denied
         ELSE last'.err # "PermissionDenied"]_vars

\* C20 as it holds: the same, with revert given a version of the topic it is
\* called on.  Given a version of another topic, revert fails on that test,
\* which comes before the permission test, whoever calls it; it changes
\* nothing then either.
C20_LockedDeniedOwnVersion ==
    [][DidEditLocked =>
         IF ForeignRevert
         THEN /\ last'.err \notin {"ok", "PermissionDenied"}
              /\ topics' = topics
              /\ versions' = versions
              /\ sent' = <<>>
         ELSE IF last'.user # "staff" THEN Denied
         ELSE last'.err # "PermissionDenied"]_vars

C20_Witness ==
    /\ last.op = "revert"
    /\ last.user = "ann"
    /\ topics[last.id].locked
    /\ versions[last.version].topic = last.id
    /\ last.err = "PermissionDenied"
    /\ topics[last.id].content_raw # versions[last.version].content_raw

\* the step called update_content
DidUpdate == last'.op = "update_content"

\* C21: update_content with new content that links to a name holding "/" or
\* ":" fails with BadName and the persisted state is unchanged: the topic's
\* row (raw and rendered content, references, nascent references) is as
\* before, and no TopicVersion and no NascentTopic has been added.
C21_BadLinkLeavesState ==
    [][(DidUpdate /\ LinksToBadName(last'.new_content)
          /\ ~ (Callee.locked /\ ~ is_staff(last'.user)))
       => /\ last'.err = "BadName"
          /\ topics' = topics
          /\ nascents' = nascents
          /\ versions' = versions]_vars

\* the step saved again the topic that the step before it saved
SavedAgain == last'.op = "save" /\ last'.again

\* C22: re-render idempotence.  save() called twice in a row on a topic, with
\* no other change in between, leaves after the second call the same
\* references, the same nascent_topics, the same rendered content and the
\* same NascentTopic rows as after the first.
C22_ResaveIdempotent ==
    [][SavedAgain
       => /\ last'.err = "ok"
          /\ topics'[last'.id].references = Callee.references
          /\ topics'[last'.id].nascent_topics = Callee.nascent_topics
          /\ topics'[last'.id].content_formatted = Callee.content_formatted
          /\ nascents' = nascents
          /\ topics' = topics]_vars

C22_Witness ==
    /\ last.op = "save"
    /\ last.again
    /\ last.err = "ok"
    /\ topics[last.id].references # {}
    /\ topics[last.id].nascent_topics # {}
    /\ Len(topics[last.id].content_formatted.links) > 0

\* thread t has copied its render's discoveries out of TOPIC_LIST
Copied(t) == t \in Prerenders /\ renders[t].pc \in {"rendered", "done"}

\* C23: scanner isolation.  In every interleaving of the renders that share
\* TOPIC_LIST, the names, the casing map and the extra references that a
\* prerender_content call copies out are exactly those of its own text,
\* never names found by another render.
C23_ScannerIsolation ==
    \A t \in Prerenders :
        Copied(t) =>
            /\ renders[t].out.topics = Render(DB, renders[t].raw).topics
            /\ renders[t].out.topics_case =
                   {<<lc, topics_case(LinkTargets(renders[t].raw), lc)>> :
                       lc \in Render(DB, renders[t].raw).topics}
            /\ renders[t].out.extra_references =
                   Render(DB, renders[t].raw).extra_references

C23_Witness ==
    /\ Copied("t1")
    /\ renders["t1"].out.extra_references # {}
    /\ renders["t1"].out.topics # {}
    /\ renders["t2"].pc = "entered"
    /\ renders["f"].pc = "entered"
    /\ renders["t2"].raw # renders["t1"].raw
    /\ renders["f"].raw # renders["t1"].raw

\* the step was a successful rename or mark_as_deleted
DidRenameOrDelete ==
    last'.op \in {"rename", "mark_as_deleted"} /\ last'.err = "ok"

\* the reason the step's call gave the topic (the caller passed none)
NewReason ==
    IF last'.op = "rename"
    THEN <<"renamed", Callee.name, last'.new_name, last'.user>>
    ELSE <<"deleted", Callee.name, last'.user>>

\* the TopicVersion rows the step added to the called topic
AddedVersions == VersionsOf(versions', last'.id) \ VersionsOf(versions, last'.id)

\* C24: each successful rename and each successful mark_as_deleted appends
\* exactly one TopicVersion to the topic, holding the topic's name, raw
\* content, reason and author from before the call, with created equal to the
\* topic's modified from before the call; afterwards the topic's author is
\* the acting user and its reason is the new reason.
C24_OneVersionPerMutation ==
    [][DidRenameOrDelete
       => /\ SubSeq(versions', 1, Len(versions)) = versions
          /\ Cardinality(AddedVersions) = 1
          /\ \A k \in AddedVersions :
                 versions'[k] = [topic |-> last'.id, author |-> Callee.author,
                                 name |-> Callee.name,
                                 content_raw |-> Callee.content_raw,
                                 reason |-> Callee.reason,
                                 created |-> Callee.modified]
          /\ topics'[last'.id].author = last'.user
          /\ topics'[last'.id].reason = NewReason]_vars

C24_Witness ==
    /\ last.op = "rename"
    /\ last.err = "ok"
    /\ Len(versions) = 1
    /\ versions[1].topic = last.id
    /\ versions[1].name # topics[last.id].name
    /\ versions[1].author # topics[last.id].author
    /\ versions[1].reason # topics[last.id].reason
    /\ versions[1].created < topics[last.id].modified

LastReferenceDropped(n) ==
    /\ n.lc_name \in Callee.nascent_topics
    /\ LinksTo(Callee.content_raw, n.name)
    /\ \A j \in LiveIds(topics) \ {last'.id} :
           /\ ~ LinksTo(topics[j].content_raw, n.name)
           /\ n.lc_name \notin topics[j].nascent_topics
    /\ ~ LinksTo(last'.new_content, n.name)

\* C26: a NascentTopic is deleted when its last referring topic stops
\* referring to it: if A is the only topic whose content links to the
\* non-existent name X, then after A.update_content with content that links
\* to X no more, no NascentTopic X exists.
C26_NascentCollected ==
    [][Did("update_content")
       => \A n \in nascents :
              LastReferenceDropped(n) => ~ HasNascent(nascents', n.lc_name)]_vars

\* the clock has moved past every timestamp the tables hold, as it has when
\* every operation reads a later time than the one before it
ClockAhead ==
    /\ \A i \in DOMAIN topics : topics[i].modified < now
    /\ \A k \in DOMAIN versions : versions[k].created < now

\* the versions of topic id in vv have distinct created values, in the order
\* of their creation
OrderedByCreated(vv, id) ==
    \A j, k \in VersionsOf(vv, id) : j < k => vv[j].created < vv[k].created

\* C27: under a strictly increasing clock, after any sequence of
\* update_content (with any update_modified), revert, rename and
\* mark_as_deleted, the TopicVersions of a topic have pairwise distinct
\* created values and their creation order is their order by created.
C27_VersionsOrdered ==
    [][(/\ last'.op \in {"update_content", "revert", "rename", "mark_as_deleted"}
        /\ last'.err = "ok"
        /\ ClockAhead
        /\ OrderedByCreated(versions, last'.id))
       => OrderedByCreated(versions', last'.id)]_vars

\* the topic the call has created
Created == topics'[Len(topics')]

\* no topic of tt has a NascentTopic of its own normalized name in its
\* nascent_topics
NoOwnNascent(tt) ==
    \A i \in LiveIds(tt) : tt[i].lc_name \notin tt[i].nascent_topics

Referrers == {a \in LiveIds(topics) \ {last'.id} : last'.id \in topics[a].references}

C30_DeletedExcluded ==
    [][Did("mark_as_deleted")
       => /\ ByNameExact(DBAfter, Callee.name) = {}
          /\ ByNameIexact(DBAfter, Callee.name) = {}
          /\ \A a \in Live(DBAfter) : \A u \in Users : \A rank \in Ranks :
                 topics'[a].name # Callee.name
                 => rename(DBAfter, Load(DBAfter, a), u, Callee.name, NoReason,
                           now, rank).err # "TopicExists"]_vars

\* the call ended with prerender_content(update_relationships = True) on the
\* callee: a creating save, an update_content or a plain save
DidReconcile ==
    last'.op \in {"create", "update_content", "save"} /\ last'.err = "ok"

\* the row of the callee after the call
CalleeAfter == topics'[last'.id]

\* D: the normalized names the links of the callee's content name
Discovered == {lower(t) : t \in Range(LinkTargets(CalleeAfter.content_raw))}

\* E: the topics the subtopics macros of the callee's content list
MacroTopics ==
    UNION {output_subtopics(DBAfter, a) :
             a \in Range(MacroArgs(CalleeAfter.content_raw, 1))}

\* the names of D that no live topic carries
Unresolved ==
    {d \in Discovered : \A i \in Live(DBAfter) : topics'[i].lc_name # d}

LiveNamed(tt, lc) == \E i \in LiveIds(tt) : lower(tt[i].name) = lc

\* some live topic of tt has the NascentTopic lc in its nascent_topics
LiveReferrer(tt, lc) == \E i \in LiveIds(tt) : lc \in tt[i].nascent_topics

\* C32: cleanup sweep postcondition.  After cleanup_nascent_topics has run,
\* every remaining NascentTopic has no live Topic of the same normalized
\* name and is referenced by at least one live Topic; the NascentTopics that
\* satisfied both conditions before are kept, and no Topic is modified (a
\* topic only loses, from nascent_topics, the NascentTopics deleted).
C32_CleanupSweep ==
    [][last'.op = "cleanup_nascent_topics"
       => /\ \A n \in nascents' :
                 /\ ~ LiveNamed(topics', n.lc_name)
                 /\ LiveReferrer(topics', n.lc_name)
          /\ nascents' \subseteq nascents
          /\ \A n \in nascents :
                 (~ LiveNamed(topics, n.lc_name) /\ LiveReferrer(topics, n.lc_name))
                 => n \in nascents'
          /\ DOMAIN topics' = DOMAIN topics
          /\ \A i \in DOMAIN topics :
                 topics'[i] = [topics[i] EXCEPT !.nascent_topics =
                                  @ \cap {n.lc_name : n \in nascents'}]
          /\ versions' = versions]_vars

\* the sweep has deleted one NascentTopic that only a deleted topic or no
\* topic referred to, and kept another
C32_Witness ==
    /\ last.op = "cleanup_nascent_topics"
    /\ nascents # {}
    /\ \E i \in DOMAIN topics :
           \E k \in DOMAIN topics[i].content_formatted.links :
               /\ topics[i].content_formatted.links[k][2] = "nonexistent"
               /\ ~ HasNascent(nascents, lower(topics[i].content_formatted.links[k][1]))

\* the normalized names the links of live topic a's stored raw content name
LinkedNames(a) == {lower(t) : t \in Range(LinkTargets(topics[a].content_raw))}

\* the references a render of live topic a would store now: the live topics
\* its links name and the topics its subtopics macros list
RerenderReferences(a) ==
    {j \in Live(DB) : topics[j].lc_name \in LinkedNames(a)}
    \cup UNION {output_subtopics(DB, arg) :
                  arg \in Range(MacroArgs(topics[a].content_raw, 1))}

\* the nascent topics a render of live topic a would store now
RerenderNascent(a) ==
    {d \in LinkedNames(a) : \A j \in Live(DB) : topics[j].lc_name # d}

\* C33: graph/content consistency.  Whenever a create, update_content,
\* revert, rename or mark_as_deleted and its signal handlers have completed,
\* for every live topic A the stored A.references is the set of live topics
\* A's current raw content names and A.nascent_topics is the NascentTopics
\* of the linked names with no live topic (an immediate re-render of A would
\* change neither set), and no live topic's references holds a deleted topic.
C33_GraphConsistent ==
    last.err = "ok"
    => \A a \in Live(DB) :
         /\ topics[a].references = RerenderReferences(a)
         /\ topics[a].nascent_topics = RerenderNascent(a)
         /\ \A d \in RerenderNascent(a) : HasNascent(nascents, d)
         /\ \A j \in topics[a].references : ~ topics[j].deleted

\* C34: the lock flag protects content.  The persisted raw content of a
\* topic with locked = true is never changed as a consequence of an operation
\* invoked by a user without staff privilege, a rename of another topic that
\* the locked topic references included.
C34_LockedContentKept ==
    [][(/\ last'.op \in {"update_content", "revert", "rename", "mark_as_deleted"}
        /\ last'.user # "staff")
       => \A i \in DOMAIN topics :
            topics[i].locked => topics'[i].content_raw = topics[i].content_raw]_vars

\* C35: rename(user, new_name) with a new_name holding "/" or ":" fails with
\* BadName and leaves the persisted state unchanged: the topic keeps its old
\* name and no TopicVersion is added.
C35_BadRenameLeavesState ==
    [][(/\ last'.op = "rename"
        /\ Has(last'.new_name, "/") \/ Has(last'.new_name, ":")
        /\ last'.err \notin {"PermissionDenied", "TopicExists"})
       => /\ last'.err = "BadName"
          /\ topics' = topics
          /\ nascents' = nascents
          /\ versions' = versions]_vars

\* the handlers of the call have all returned
FanIdle == fan.stack = <<>>

\* C36: fan-out termination.  The handlers triggered by one create, rename
\* or mark_as_deleted, on graphs with self-references and cycles, re-render
\* each topic a bounded number of times (once at most) and terminate, and a
\* handler's re-render of a topic never sends a further topic_created,
\* topic_renamed or topic_deleted: the call sends one signal and one handler
\* at a time is running.
C36_FanoutTerminates ==
    /\ [](/\ Len(fan.events) <= 1
          /\ Len(fan.stack) <= 1
          /\ \A i \in DOMAIN fan.saved : fan.saved[i] <= 1)
    /\ (~ FanIdle) ~> FanIdle

\* the handlers of a rename have saved both topics of a wiki whose two
\* topics refer to each other, and have returned
C36_Witness ==
    /\ FanIdle
    /\ fan.events = <<"topic_renamed">>
    /\ fan.err = "ok"
    /\ \E i, j \in LiveIds(topics) :
           /\ i # j
           /\ fan.saved[i] = 1 /\ fan.saved[j] = 1
           /\ i \in topics[j].references /\ j \in topics[i].references

\* topic id has a lock whose expiry is not before now
HoldsLock(id) ==
    /\ topics[id].write_lock # 0
    /\ \E wl \in writelocks : wl.id = topics[id].write_lock /\ wl.expiry >= now

\* C37: write_locked() agrees with the acquisition rule in every lock state.
\* write_locked() is False exactly when the topic has no lock or the lock's
\* expiry < now, and in exactly those states get_write_lock(user, force =
\* False) succeeds for every user; when write_locked() is True it succeeds
\* only for the lock's owner (expiry = now counts as still locked).
C37_WriteLockedAgrees ==
    \A id \in LiveIds(topics) :
        /\ write_locked(writelocks, Load(DB, id), now) = HoldsLock(id)
        /\ \A u \in Users :
               get_write_lock(DB, writelocks, Load(DB, id), u, FALSE, now).ret
                 = (HoldsLock(id) => LockOf(writelocks, topics[id]).owner = u)

\* a get_write_lock without force by a user who is not the owner has been
\* refused on a lock whose expiry is now
C37_Witness ==
    /\ last.op = "get_write_lock"
    /\ last.err = "False"
    /\ ~ last.force
    /\ last.held[1] # last.user
    /\ last.held[2] = now
    /\ write_locked(writelocks, Load(DB, last.id), now)

\* the lock the called topic holds after the call, as <<owner, expiry>>
HeldAfter == Held(writelocks', topics'[last'.id])

\* C38: after every get_write_lock call that returns True the topic's lock
\* is owned by the requesting user and has at least the renewal window left
\* (expiry - now >= 1 minute); it has exactly WRITE_LOCK_EXPIRY left whenever
\* the call created, transferred or refreshed the lock.
C38_GrantedLockLasts ==
    [][(DidLock /\ last'.err = "True")
       => /\ HeldAfter # <<>>
          /\ HeldAfter[1] = last'.user
          /\ HeldAfter[2] - now >= RENEWAL_WINDOW
          /\ (last'.held = <<>> \/ last'.held # HeldAfter)
             => HeldAfter[2] - now = WRITE_LOCK_EXPIRY]_vars

\* the owner has been granted its lock again with exactly the renewal window
\* left, without a refresh
C38_Witness ==
    /\ last.op = "get_write_lock"
    /\ last.err = "True"
    /\ last.held = Held(writelocks, topics[last.id])
    /\ last.held[1] = last.user
    /\ last.held[2] - now = RENEWAL_WINDOW

\* the fields of a topic row that an edit writes
Edited(t) ==
    <<t.name, t.content_raw, t.author, t.reason, t.modified, t.deleted>>

\* the lock of a topic row as <<owner, expiry>>, by the WriteLock table locks
LockHeld(locks, t) ==
    IF t.write_lock = 0 THEN <<>>
    ELSE {<<wl.owner, wl.expiry>> : wl \in {w \in locks : w.id = t.write_lock}}

\* C39: lock operations do not touch content or history.  get_write_lock and
\* release_write_lock, whether they succeed or fail, create no TopicVersion,
\* send no signal, and leave every topic's name, raw content, author, reason,
\* modified time and deleted flag unchanged; update_content, revert, rename
\* and mark_as_deleted leave every lock's owner and expiry unchanged.
C39_LockFrame ==
    [][/\ last'.op \in {"get_write_lock", "release_write_lock"}
          => /\ versions' = versions
             /\ last'.events = <<>> /\ sent' = <<>>
             /\ save_signals(Load(DB, last'.id)) = <<>>
             /\ DOMAIN topics' = DOMAIN topics
             /\ \A i \in DOMAIN topics : Edited(topics'[i]) = Edited(topics[i])
       /\ last'.op \in {"update_content", "revert", "rename", "mark_as_deleted"}
          => /\ DOMAIN topics' = DOMAIN topics
             /\ \A i \in DOMAIN topics :
                    LockHeld(writelocks', topics'[i]) = LockHeld(writelocks, topics[i])]_vars

\* a lock has been released, by force, on a topic that was edited before
C39_Witness ==
    /\ last.op = "release_write_lock"
    /\ last.err = "True"
    /\ last.held # <<>>
    /\ last.held[1] # last.user
    /\ \E k \in DOMAIN versions : versions[k].topic = last.id
    /\ topics[last.id].write_lock = 0

\* both saves are over, and both were of content that links to the name lc,
\* which no live topic carries
BothLinked(lc) ==
    /\ \A t \in Prerenders :
           /\ renders[t].pc \in {"done", "failed"}
           /\ lc \in {lower(x) : x \in Range(LinkTargets(renders[t].raw))}
    /\ \A i \in LiveIds(topics) : topics[i].lc_name # lc

\* C40: concurrent reconciliation of a new name.  When two topics whose
\* contents both link to the same not-yet-existing name X are re-rendered
\* concurrently, every interleaving ends with exactly one NascentTopic X that
\* is in the nascent_topics of both topics, and neither re-render fails.
C40_ConcurrentReconcile ==
    \A lc \in {lower(x) : x \in Range(LinkTargets(renders["t1"].raw))} :
        BothLinked(lc)
        => /\ \A t \in Prerenders :
                  /\ renders[t].pc = "done"
                  /\ lc \in topics[renders[t].id].nascent_topics
           /\ Cardinality({n \in nascents : n.lc_name = lc}) = 1

\* the two calls both found the topic unlocked and both returned True
BothAcquired ==
    \A u \in Users : calls[u].pc = "done" /\ calls[u].ret /\ calls[u].wl # 0

\* no topic points at the WriteLock row with this id
Orphaned(id) ==
    /\ \E wl \in writelocks : wl.id = id
    /\ \A i \in 1..Len(topics) : topics[i].write_lock # id

\* C13: when two users run get_write_lock(force = False) at once on an
\* unlocked topic, the read of write_lock and the create and save being
\* separate steps, both calls can return True; whenever both have, the two
\* created WriteLock rows both exist, the topic points at one of them and the
\* other is attached to no topic.
C13_RaceOrphans ==
    BothAcquired =>
        \E u \in Users :
            /\ topics[1].write_lock = calls[u].wl
            /\ \E wl \in writelocks : wl.id = calls[u].wl /\ wl.owner = u
            /\ \A v \in Users \ {u} :
                   /\ Orphaned(calls[v].wl)
                   /\ \E wl \in writelocks : wl.id = calls[v].wl /\ wl.owner = v

C13_Witness ==
    /\ BothAcquired
    /\ Cardinality(writelocks) = 2
    /\ \E u \in Users : Orphaned(calls[u].wl)

====
